---- MODULE Spec2Model ----
(***************************************************************************)
(* Payment integration mesh (zyndor1548/pulseberry).                       *)
(*                                                                         *)
(* The planes share this module, each with its own specification:          *)
(*   Spec         the payment plane: charge handler (Payment),             *)
(*                asynchronous dispatch (processPaymentAsync), payment     *)
(*                state machine (SetState), two concurrent charges         *)
(*   SpecReplay   the same plane with three charges for one payment        *)
(*   SpecIntent   the intent store (PaymentKey)                            *)
(*   SpecBreaker  one circuit breaker driven by Execute (beforeRequest,    *)
(*                afterRequest) and Reset over a discrete clock            *)
(*   SpecSelector the provider registry and the selector                   *)
(*   SpecEligible GetEligiblePaymentProviders at the capability limits     *)
(*   SpecCharge   two concurrent charges around the compliance threshold,  *)
(*                with dispatches that may panic                           *)
(*   SpecOutage   one charge while providers are disabled                  *)
(*   SpecSubscribe one charge and the websocket subscribers of its payment *)
(*   SpecDelivery SpecSubscribe with fair charge and subscriber steps      *)
(*   SpecRetry    ShouldRetry on a fresh RetryStrategy                     *)
(*   SpecBudget   one charge against failing gateways                      *)
(*   SpecWindow   the latency tracker                                      *)
(*   SpecShed     requests through the load-shedding middleware            *)
(*   SpecScoring  ServerMetrics and CalculateScore                         *)
(*   SpecState    SetState on any payment from any state                   *)
(*   SpecScorer   the periodic score update and its stop                   *)
(*   SpecRecovery selection and execution with opened breakers             *)
(*   SpecProbe    one opened breaker after its cooldown                    *)
(*   SpecTies     round robin with re-registered priorities                *)
(*                                                                         *)
(* Every goroutine is a slot with a program counter.  One action is one    *)
(* access to shared state (the status map, the key-value store, a breaker  *)
(* or the registry) together with the local computation that follows it.   *)
(* The status map of state.go is an unguarded Go map; its accesses are     *)
(* modelled as atomic steps, which is the most favourable outcome of the   *)
(* unsynchronised accesses.                                                *)
(***************************************************************************)
EXTENDS Integers, Sequences, FiniteSets, Bags, TLC

\* ------------------------------------------------------------------------
\* Payment states (backend/state.go, const block)
\* ------------------------------------------------------------------------
INITIATED == 0
PROCESSING == 1
CANCELLED == 2
SUCCESS == 3
FAILED == 4

States == {INITIATED, PROCESSING, CANCELLED, SUCCESS, FAILED}

\* ------------------------------------------------------------------------
\* Bounds and input sets
\* ------------------------------------------------------------------------
MaxPayIds == 2            \* payment ids the intent store may mint
NoId == 0                 \* the empty string / redis.Nil
PayIds == 1..MaxPayIds    \* "pay_<uuid>", one per mint

ComplianceThreshold == 1000000

CallerIds == {"o1", "o2"}
Amounts == {5000, ComplianceThreshold}
Fingerprints == CallerIds \X Amounts

\* the charge requests clients send: a valid one, one that names the payment
\* id of another intent, a high-value one with a user, one without
\* payment_id, one whose intent was never registered
ChargeRequests ==
    {[id |-> "o1", amount |-> 5000, payment_id |-> 1, user_id |-> ""],
     [id |-> "o1", amount |-> 5000, payment_id |-> 2, user_id |-> ""],
     [id |-> "o1", amount |-> ComplianceThreshold, payment_id |-> 2, user_id |-> "u1"],
     [id |-> "o1", amount |-> 5000, payment_id |-> NoId, user_id |-> ""],
     [id |-> "o2", amount |-> 5000, payment_id |-> 1, user_id |-> ""]}

ServerURLs == {"gw1", "gw2"}

ChargeSlots == {"h1", "h2", "h3"}     \* goroutines serving POST /payment
PairSlots == {"h1", "h2"}             \* the two that run in the full payment plane
RegSlots == {"r1", "r2"}              \* goroutines serving /paymentKey

NoResult == [kind |-> "none"]

\* ------------------------------------------------------------------------
\* Circuit breaker and registry: constants
\* ------------------------------------------------------------------------
StateClosed == 0
StateOpen == 1
StateHalfOpen == 2

\* DefaultCircuitBreakerConfig; durations in ticks of 30 seconds
FailureThreshold == 10
ErrorRateThreshold == [num |-> 1, den |-> 2]     \* 0.5
WindowDuration == 2
CooldownPeriod == 1
HalfOpenMaxRequests == 5
\* the literal of shouldOpen: cb.totalRequests >= 10
MinTotalRequests == 10

MaxTime == 3          \* the clock stops here
MaxRequests == 12     \* outcomes a CLOSED breaker records before it admits no more
MaxInflight == 2      \* requests between beforeRequest and afterRequest

Providers == {"stripe", "razorpay", "klarna"}
NoProvider == "none"
\* the priorities main registers them with: primary, secondary, tertiary
Priority == [stripe |-> 0, razorpay |-> 1, klarna |-> 2]
Users == {"u1"}

\* ------------------------------------------------------------------------
\* State
\* ------------------------------------------------------------------------
VARIABLES
    status,      \* state.go: var status map[string]int (partial function)
    lastSet,     \* the most recent SetState call: id, from, to, ok
    kv,          \* intent store: fingerprint -> payment id (NoId: no key)
    nextId,      \* number of payment ids minted so far
    epoch,       \* per fingerprint, number of completed deletes
    results,     \* result cache: payment_result:<id> -> blob
    servers,     \* serverPool.servers (fixed after start-up)
    reg,         \* /paymentKey goroutines
    hs,          \* /payment goroutines
    ds           \* processPaymentAsync goroutines, one per charge slot

VARIABLES
    clients,     \* websockets.go: WSManager.clients, payment id -> connections
    ws           \* websocket connections: HandleWS position, messages received

\* the subscriber set belongs to neither plane below; both tuples carry it,
\* so that an action of either plane leaves it alone
wsVars == <<clients, ws>>

VARIABLES
    retry,       \* the most recent RetryStrategy.ShouldRetry call and its decision
    tracker,     \* a LatencyTracker: its samples and its capacity
    arrivals,    \* every latency handed to AddSample, in call order
    shedder,     \* the LoadShedder: its switch, counters and cached CPU estimate
    mw,          \* per request: its position in LoadSheddingMiddleware
    metrics,     \* the ServerMetrics of one gateway
    wall,        \* the clock the metrics read, in ticks of five minutes
    pool         \* the ServerPool's mutex, periodic scorer and its stopper

\* components no plane calls into; both tuples carry them as well
libVars == <<retry, tracker, arrivals, shedder, mw, metrics, wall, pool>>

payVars == <<status, lastSet, kv, nextId, epoch, results, servers, reg, hs, ds, wsVars,
             libVars>>

\* the payment plane's own variables
chargeVars == <<status, lastSet, kv, nextId, epoch, results, servers, reg, hs, ds>>

VARIABLES
    now,               \* the clock, in ticks
    cb,                \* per provider, its CircuitBreaker
    inflight,          \* per provider, requests Execute has let through
    outcome,           \* the most recent breaker call and what it returned
    paymentProviders,  \* registry: per provider, ProviderConfig.Enabled
    affinity,          \* provider_affinity:<user> -> provider name
    selected           \* the most recent SelectProvider call and its result

brkVars == <<now, cb, inflight, outcome>>
regVars == <<paymentProviders, affinity, selected>>
ctlVars == <<brkVars, regVars, wsVars, libVars>>

\* everything but the library components
planeVars == <<chargeVars, wsVars, brkVars, regVars>>

\* ------------------------------------------------------------------------
\* state.go
\* ------------------------------------------------------------------------
\* status[id] of a Go map: the zero value for a missing key
GetState(st, id) == IF id \in DOMAIN st THEN st[id] ELSE 0

SetStateOk(st, id, changestate) ==
    LET currentState == GetState(st, id) IN
    IF currentState = 0 /\ changestate = INITIATED THEN TRUE
    ELSE CASE currentState = INITIATED -> changestate \in {PROCESSING, CANCELLED}
           [] currentState = PROCESSING -> changestate \in {SUCCESS, CANCELLED, FAILED}
           [] currentState = FAILED -> changestate = PROCESSING
           [] OTHER -> FALSE

\* the map after SetState(id, changestate)
SetState(st, id, changestate) ==
    IF SetStateOk(st, id, changestate)
    THEN [x \in DOMAIN st \cup {id} |-> IF x = id THEN changestate ELSE st[x]]
    ELSE st

\* the record of one SetState call
SetCall(st, id, changestate) ==
    [id |-> id, from |-> GetState(st, id), present |-> id \in DOMAIN st,
     to |-> changestate, ok |-> SetStateOk(st, id, changestate)]

NoCall == [id |-> NoId, from |-> 0, present |-> FALSE, to |-> 0, ok |-> FALSE]

\* ------------------------------------------------------------------------
\* Circuit breaker (script.js from line 71)
\* ------------------------------------------------------------------------
\* requestHistory is kept as the bag of its records: the code appends to the
\* slice and otherwise only filters and counts it.  lastError is only
\* reported and is left out.
NewCircuitBreaker(t) ==
    [state |-> StateClosed, failureCount |-> 0, successCount |-> 0,
     totalRequests |-> 0, errorCount |-> 0, lastStateChange |-> t,
     requestHistory |-> EmptyBag]

\* record.timestamp.After(windowStart)
InWindow(record, t) == record.timestamp > t - WindowDuration

cleanOldHistory(history, t) ==
    [record \in {x \in DOMAIN history : InWindow(x, t)} |-> history[record]]

\* errorsInWindow / totalInWindow as a fraction; 0.0 for an empty window
calculateErrorRate(b, t) ==
    LET window == cleanOldHistory(b.requestHistory, t)
        errors == [record \in {x \in DOMAIN window : ~x.success} |-> window[record]]
        totalInWindow == BagCardinality(window)
        errorsInWindow == BagCardinality(errors)
    IN  IF totalInWindow = 0 THEN [num |-> 0, den |-> 1]
        ELSE [num |-> errorsInWindow, den |-> totalInWindow]

\* rate >= threshold on fractions
RateAtLeast(rate, threshold) == rate.num * threshold.den >= threshold.num * rate.den

shouldOpen(b, t) ==
    \/ b.failureCount >= FailureThreshold
    \/ /\ RateAtLeast(calculateErrorRate(b, t), ErrorRateThreshold)
       /\ b.totalRequests >= MinTotalRequests

\* transitionTo that keeps the consecutive counts on entering HALF_OPEN
transitionToKeepsCounts(b, newState, t) ==
    LET moved == [b EXCEPT !.state = newState, !.lastStateChange = t] IN
    IF newState = StateClosed
    THEN [moved EXCEPT !.failureCount = 0, !.successCount = 0,
                       !.errorCount = 0, !.totalRequests = 0]
    ELSE moved

transitionTo(b, newState, t) ==
    LET moved == [b EXCEPT !.state = newState, !.lastStateChange = t] IN
    IF newState = StateClosed
    THEN [moved EXCEPT !.failureCount = 0, !.successCount = 0,
                       !.errorCount = 0, !.totalRequests = 0]
    ELSE IF newState = StateHalfOpen
    THEN [moved EXCEPT !.successCount = 0, !.failureCount = 0]
    ELSE moved

\* time.Since(cb.lastStateChange) > cb.config.CooldownPeriod
CooledDown(b, t) == t - b.lastStateChange > CooldownPeriod

\* beforeRequest that probes as soon as the cooldown is reached
beforeRequestAtCooldown(b, t) ==
    IF b.state = StateOpen
    THEN IF t - b.lastStateChange >= CooldownPeriod
         THEN [cb |-> transitionTo(b, StateHalfOpen, t), err |-> FALSE]
         ELSE [cb |-> b, err |-> TRUE]
    ELSE [cb |-> b, err |-> FALSE]

\* the breaker after the call and whether the call returned an error
beforeRequest(b, t) ==
    IF b.state = StateOpen
    THEN IF CooledDown(b, t)
         THEN [cb |-> transitionTo(b, StateHalfOpen, t), err |-> FALSE]
         ELSE [cb |-> b, err |-> TRUE]
    ELSE [cb |-> b, err |-> FALSE]

\* afterRequest whose failure in HALF_OPEN leaves the breaker probing
afterRequestKeepsProbing(b, success, t) ==
    LET record == [timestamp |-> t, success |-> success]
        recorded == [b EXCEPT
            !.requestHistory = cleanOldHistory(b.requestHistory (+) SetToBag({record}), t),
            !.totalRequests = @ + 1]
    IN  IF ~success
        THEN LET failed == [recorded EXCEPT !.errorCount = @ + 1,
                                            !.failureCount = @ + 1,
                                            !.successCount = 0]
             IN  IF failed.state = StateClosed /\ shouldOpen(failed, t)
                 THEN transitionTo(failed, StateOpen, t)
                 ELSE failed
        ELSE LET passed == [recorded EXCEPT !.failureCount = 0,
                                            !.successCount = @ + 1]
             IN  IF passed.state = StateHalfOpen
                    /\ passed.successCount >= HalfOpenMaxRequests
                 THEN transitionTo(passed, StateClosed, t)
                 ELSE passed

\* afterRequest(err) with success == (err == nil)
afterRequest(b, success, t) ==
    LET record == [timestamp |-> t, success |-> success]
        recorded == [b EXCEPT
            !.requestHistory = cleanOldHistory(b.requestHistory (+) SetToBag({record}), t),
            !.totalRequests = @ + 1]
    IN  IF ~success
        THEN LET failed == [recorded EXCEPT !.errorCount = @ + 1,
                                            !.failureCount = @ + 1,
                                            !.successCount = 0]
             IN  IF failed.state = StateClosed
                 THEN IF shouldOpen(failed, t)
                      THEN transitionTo(failed, StateOpen, t)
                      ELSE failed
                 ELSE IF failed.state = StateHalfOpen
                 THEN transitionTo(failed, StateOpen, t)
                 ELSE failed
        ELSE LET passed == [recorded EXCEPT !.failureCount = 0,
                                            !.successCount = @ + 1]
             IN  IF passed.state = StateHalfOpen
                    /\ passed.successCount >= HalfOpenMaxRequests
                 THEN transitionTo(passed, StateClosed, t)
                 ELSE passed

NoOutcome == [op |-> "none", provider |-> NoProvider, err |-> FALSE]

\* the breakers at rest, as RegisterPaymentProvider creates them
InitBreakers ==
    /\ now = 0
    /\ cb = [p \in Providers |-> NewCircuitBreaker(0)]
    /\ inflight = [p \in Providers |-> 0]
    /\ outcome = NoOutcome

\* main registers the three providers enabled
InitRegistry ==
    /\ paymentProviders =
           [p \in Providers |-> [Enabled |-> TRUE, Priority |-> Priority[p]]]
    /\ affinity = [u \in Users |-> NoProvider]
    /\ selected = [strategy |-> "none"]

\* ------------------------------------------------------------------------
\* Init
\* ------------------------------------------------------------------------
IdleReg == [pc |-> "idle", method |-> "none", fp |-> <<"o1", 5000>>, id |-> NoId,
            resp |-> NoId, epoch |-> 0]

IdleCharge == [pc |-> "idle",
               req |-> [id |-> "o1", amount |-> 5000, payment_id |-> NoId, user_id |-> ""],
               cached |-> NoId, cur |-> INITIATED, code |-> 0, body |-> NoResult]

\* the locals response, err and dat while nothing can read what they hold:
\* before a gateway call overwrites them, and once the loop's exit is behind
NoAttempt == [transport |-> FALSE, status |-> "none", code |-> 0]

IdleDispatch == [pc |-> "idle", paymentID |-> NoId, attempt |-> 0, maxRetries |-> 0,
                 calls |-> 0, selectedServer |-> "none", finalStatus |-> INITIATED,
                 msg |-> NoResult, conns |-> <<>>, idx |-> 0, shared |-> FALSE,
                 sent |-> {}, last |-> NoAttempt]

Conns == {"c1", "c2"}       \* websocket connections

IdleConn == [pc |-> "idle", paymentID |-> NoId, inbox |-> <<>>]

NoConn == "none"            \* a nil *websocket.Conn

\* a []*websocket.Conn: its backing array, whose length is the capacity,
\* and its length; the nil slice of a key the map does not hold
NilSlice == [arr |-> <<>>, len |-> 0]

Slice(s) == SubSeq(s.arr, 1, s.len)

\* the capacity append grows a full slice to
Grown(s) == IF Len(s.arr) = 0 THEN 1 ELSE 2 * Len(s.arr)

\* append(s, c): into the backing array while the capacity lasts, otherwise
\* into a new array
appendConn(s, c) ==
    IF s.len < Len(s.arr)
    THEN [arr |-> [s.arr EXCEPT ![s.len + 1] = c], len |-> s.len + 1]
    ELSE [arr |-> [k \in 1..Grown(s) |->
                     IF k <= s.len THEN s.arr[k] ELSE IF k = s.len + 1 THEN c ELSE NoConn],
          len |-> s.len + 1]

\* append(conns[:i], conns[i+1:]...), with i counted from 1: the elements
\* behind i move one place down in the same backing array
removeAt(s, i) ==
    [arr |-> [k \in 1..Len(s.arr) |->
                IF k >= i /\ k < s.len THEN s.arr[k + 1] ELSE s.arr[k]],
     len |-> s.len - 1]

\* the place of c in the slice, 0 when it is not in it
IndexOf(s, c) ==
    IF \E i \in 1..s.len : s.arr[i] = c
    THEN CHOOSE i \in 1..s.len : s.arr[i] = c /\ \A j \in 1..(i - 1) : s.arr[j] # c
    ELSE 0

NoRetry == [op |-> "none"]

\* the samples a tracker may hold at most (scoring.go passes 1000)
MaxSamples == 3

NewLatencyTracker(maxSamples) == [samples |-> <<>>, maxSamples |-> maxSamples]

\* requests on their way through the load-shedding middleware
Requests == {"q1", "q2", "q3"}
IdleRequest == [pc |-> "idle", code |-> 0, retryAfter |-> "", reason |-> ""]

\* NewLoadShedder at time t; lastCPUUsage is left at its zero value
NewLoadShedder(enabled, t) ==
    [enabled |-> enabled, activeRequests |-> 0, totalRequests |-> 0, shedRequests |-> 0,
     lastCPUCheck |-> t, lastCPUUsage |-> 0]

\* time.Duration(math.MaxInt64), the largest latency the model can write
NoMinLatency == 2147483647

\* scores are kept in tenths
NewServerMetrics(t) ==
    [Score |-> 1000, TotalRequests |-> 0, SuccessRequests |-> 0, FailedRequests |-> 0,
     TotalLatency |-> 0, AvgLatency |-> 0, MinLatency |-> NoMinLatency, MaxLatency |-> 0,
     GatewayErrors |-> <<>>, BankErrors |-> <<>>, NetworkErrors |-> <<>>,
     ClientErrors |-> <<>>, ActiveConnections |-> 0, LastUpdated |-> t]

\* NewServerPool (loadbalancer.go, lines 20-30): the mutex is free, no
\* scorer goroutine runs, stopChan is unbuffered and nobody is in
\* StopPeriodicScoreUpdate
NewServerPool ==
    [writer |-> "none", readers |-> 0, isRunning |-> FALSE, tick |-> FALSE,
     scorer |-> "off", stopper |-> "idle", passes |-> 0, stops |-> 0]

\* nothing has been asked of the library components
InitLibrary ==
    /\ retry = NoRetry
    /\ tracker = NewLatencyTracker(MaxSamples)
    /\ arrivals = <<>>
    /\ shedder = NewLoadShedder(TRUE, 0)
    /\ mw = [q \in Requests |-> IdleRequest]
    /\ metrics = NewServerMetrics(0)
    /\ wall = 0
    /\ pool = NewServerPool

\* NewWSManager: nobody is subscribed
InitSubscribers ==
    /\ clients = [p \in PayIds |-> NilSlice]
    /\ ws = [c \in Conns |-> IdleConn]

\* the intents of caller o1 are registered: (o1, 5000) -> 1 and
\* (o1, ComplianceThreshold) -> 2
RegisteredIntents ==
    [f \in Fingerprints |-> IF f = <<"o1", 5000>> THEN 1
                            ELSE IF f = <<"o1", ComplianceThreshold>> THEN 2 ELSE NoId]

InitPay ==
    /\ InitBreakers
    /\ InitRegistry
    /\ status = <<>>
    /\ lastSet = NoCall
    /\ kv = RegisteredIntents
    /\ nextId = 2
    /\ epoch = [f \in Fingerprints |-> 0]
    /\ results = [p \in PayIds |-> NoResult]
    /\ servers \in SUBSET ServerURLs
    /\ reg = [r \in RegSlots |-> IdleReg]
    /\ hs = [h \in ChargeSlots |-> IdleCharge]
    /\ ds = [h \in ChargeSlots |-> IdleDispatch]
    /\ InitSubscribers
    /\ InitLibrary

\* the intent store before any registration
InitIntent ==
    /\ InitBreakers
    /\ InitRegistry
    /\ status = <<>>
    /\ lastSet = NoCall
    /\ kv = [f \in Fingerprints |-> NoId]
    /\ nextId = 0
    /\ epoch = [f \in Fingerprints |-> 0]
    /\ results = [p \in PayIds |-> NoResult]
    /\ servers = ServerURLs
    /\ reg = [r \in RegSlots |-> IdleReg]
    /\ hs = [h \in ChargeSlots |-> IdleCharge]
    /\ ds = [h \in ChargeSlots |-> IdleDispatch]
    /\ InitSubscribers
    /\ InitLibrary

\* ------------------------------------------------------------------------
\* PaymentKey (POST /paymentKey, DELETE /paymentKey)
\* ------------------------------------------------------------------------
\* a request arrives and is decoded; the fingerprint is SHA256 of {id, amount}
RegReceive(r) ==
    /\ reg[r].pc = "idle"
    /\ \E m \in {"POST", "DELETE"}, f \in Fingerprints :
          reg' = [reg EXCEPT ![r] = [IdleReg EXCEPT !.pc = "get", !.method = m, !.fp = f]]
    /\ UNCHANGED <<status, lastSet, kv, nextId, epoch, results, servers, hs, ds>>
    /\ UNCHANGED ctlVars

\* POST: rdb.Get(requestHash); a hit is answered at once, a miss mints an id
PaymentKeyGet(r) ==
    /\ reg[r].pc = "get" /\ reg[r].method = "POST"
    /\ IF kv[reg[r].fp] # NoId
       THEN /\ reg' = [reg EXCEPT ![r].pc = "done", ![r].resp = kv[reg[r].fp],
                                  ![r].epoch = epoch[reg[r].fp]]
            /\ UNCHANGED nextId
       ELSE /\ nextId < MaxPayIds
            /\ nextId' = nextId + 1
            /\ reg' = [reg EXCEPT ![r].pc = "set", ![r].id = nextId + 1]
    /\ UNCHANGED <<status, lastSet, kv, epoch, results, servers, hs, ds>>
    /\ UNCHANGED ctlVars

\* POST: rdb.Set(requestHash, paymentID, 0) and the reply
PaymentKeySet(r) ==
    /\ reg[r].pc = "set"
    /\ kv' = [kv EXCEPT ![reg[r].fp] = reg[r].id]
    /\ reg' = [reg EXCEPT ![r].pc = "done", ![r].resp = reg[r].id,
                          ![r].epoch = epoch[reg[r].fp]]
    /\ UNCHANGED <<status, lastSet, nextId, epoch, results, servers, hs, ds>>
    /\ UNCHANGED ctlVars

\* DELETE: rdb.Get(requestHash); 404 when the key is missing
PaymentKeyDeleteGet(r) ==
    /\ reg[r].pc = "get" /\ reg[r].method = "DELETE"
    /\ reg' = [reg EXCEPT ![r].pc = IF kv[reg[r].fp] = NoId THEN "notfound" ELSE "del",
                          ![r].id = kv[reg[r].fp]]
    /\ UNCHANGED <<status, lastSet, kv, nextId, epoch, results, servers, hs, ds>>
    /\ UNCHANGED ctlVars

\* DELETE: rdb.Del(requestHash) and the reply
PaymentKeyDel(r) ==
    /\ reg[r].pc = "del"
    /\ kv' = [kv EXCEPT ![reg[r].fp] = NoId]
    /\ epoch' = [epoch EXCEPT ![reg[r].fp] = @ + 1]
    /\ reg' = [reg EXCEPT ![r].pc = "deleted"]
    /\ UNCHANGED <<status, lastSet, nextId, results, servers, hs, ds>>
    /\ UNCHANGED ctlVars

\* ------------------------------------------------------------------------
\* Payment (POST /payment)
\* ------------------------------------------------------------------------
Respond(h, c, b) == [hs EXCEPT ![h].pc = "done", ![h].code = c, ![h].body = b]

ErrorBody(errorCode, st) == [kind |-> "error", code |-> errorCode, status |-> st]

\* a charge request out of the set reqs arrives and is decoded
ChargeReceive(h, reqs) ==
    /\ hs[h].pc = "idle"
    /\ \E req \in reqs :
          hs' = [hs EXCEPT ![h] = [IdleCharge EXCEPT !.pc = "lookup", !.req = req]]
    /\ UNCHANGED <<status, lastSet, kv, nextId, epoch, results, servers, reg, ds>>
    /\ UNCHANGED ctlVars

\* lines 507-536: payment_id present, rdb.Get(requestHash), then the local
\* comparison of line 537
ChargeLookup(h) ==
    /\ hs[h].pc = "lookup"
    /\ LET req == hs[h].req
           cachedPaymentID == kv[<<req.id, req.amount>>]
       IN  hs' = IF req.payment_id = NoId
                 THEN Respond(h, 400, ErrorBody("PAYMENT_ID_REQUIRED", FAILED))
                 ELSE IF cachedPaymentID = NoId
                 THEN Respond(h, 401, ErrorBody("PAYMENT_KEY_NOT_FOUND", FAILED))
                 ELSE [hs EXCEPT ![h].cached = cachedPaymentID,
                                 ![h].pc = IF req.payment_id # cachedPaymentID
                                           THEN "mismatch" ELSE "getstate"]
    /\ UNCHANGED <<status, lastSet, kv, nextId, epoch, results, servers, reg, ds>>
    /\ UNCHANGED ctlVars

\* lines 537-547: SetState(req.PaymentID, FAILED), reply PAYMENT_ID_MISMATCH
ChargeMismatch(h) ==
    /\ hs[h].pc = "mismatch"
    /\ LET id == hs[h].req.payment_id IN
       /\ lastSet' = SetCall(status, id, FAILED)
       /\ status' = SetState(status, id, FAILED)
       /\ hs' = Respond(h, 401, ErrorBody("PAYMENT_ID_MISMATCH",
                                          GetState(SetState(status, id, FAILED), id)))
    /\ UNCHANGED <<kv, nextId, epoch, results, servers, reg, ds>>
    /\ UNCHANGED ctlVars

\* ChargeGetState with a replay for SUCCESS only: a FAILED payment is
\* charged again
ChargeGetStateRetriesFailed(h) ==
    /\ hs[h].pc = "getstate"
    /\ LET req == hs[h].req
           currentState == GetState(status, req.payment_id)
       IN  hs' = IF currentState = SUCCESS
                 THEN [hs EXCEPT ![h].cur = currentState, ![h].pc = "replay"]
                 ELSE IF currentState = PROCESSING
                 THEN [Respond(h, 409, ErrorBody("INTERNAL_ERROR", currentState))
                          EXCEPT ![h].cur = currentState]
                 ELSE [hs EXCEPT ![h].cur = currentState,
                          ![h].pc = IF req.amount >= ComplianceThreshold /\ req.user_id # ""
                                    THEN "kyc" ELSE "init"]
    /\ UNCHANGED <<status, lastSet, kv, nextId, epoch, results, servers, reg, ds>>
    /\ UNCHANGED ctlVars

\* ChargeGetState with a compliance check only above the threshold
ChargeGetStateAboveThreshold(h) ==
    /\ hs[h].pc = "getstate"
    /\ LET req == hs[h].req
           currentState == GetState(status, req.payment_id)
       IN  hs' = IF currentState = SUCCESS \/ currentState = FAILED
                 THEN [hs EXCEPT ![h].cur = currentState, ![h].pc = "replay"]
                 ELSE IF currentState = PROCESSING
                 THEN [Respond(h, 409, ErrorBody("INTERNAL_ERROR", currentState))
                          EXCEPT ![h].cur = currentState]
                 ELSE [hs EXCEPT ![h].cur = currentState,
                          ![h].pc = IF req.amount > ComplianceThreshold /\ req.user_id # ""
                                    THEN "kyc" ELSE "init"]
    /\ UNCHANGED <<status, lastSet, kv, nextId, epoch, results, servers, reg, ds>>
    /\ UNCHANGED ctlVars

\* lines 549-581: currentState := GetState(req.PaymentID) and the branch on it
ChargeGetState(h) ==
    /\ hs[h].pc = "getstate"
    /\ LET req == hs[h].req
           currentState == GetState(status, req.payment_id)
       IN  hs' = IF currentState = SUCCESS \/ currentState = FAILED
                 THEN [hs EXCEPT ![h].cur = currentState, ![h].pc = "replay"]
                 ELSE IF currentState = PROCESSING
                 THEN [Respond(h, 409, ErrorBody("INTERNAL_ERROR", currentState))
                          EXCEPT ![h].cur = currentState]
                 ELSE [hs EXCEPT ![h].cur = currentState,
                          ![h].pc = IF req.amount >= ComplianceThreshold /\ req.user_id # ""
                                    THEN "kyc" ELSE "init"]
    /\ UNCHANGED <<status, lastSet, kv, nextId, epoch, results, servers, reg, ds>>
    /\ UNCHANGED ctlVars

\* lines 553-569: rdb.Get("payment_result:"+id); the cached blob when there
\* is one, otherwise a generated "Payment already processed" body
ReplayBody(cachedResult, currentState, id) ==
    IF cachedResult # NoResult
    THEN cachedResult
    ELSE [kind |-> "already_processed", status |-> currentState, payment_id |-> id]

ChargeReplay(h) ==
    /\ hs[h].pc = "replay"
    /\ hs' = Respond(h, 200, ReplayBody(results[hs[h].req.payment_id], hs[h].cur,
                                        hs[h].req.payment_id))
    /\ UNCHANGED <<status, lastSet, kv, nextId, epoch, results, servers, reg, ds>>
    /\ UNCHANGED ctlVars

\* lines 584-617: the compliance call (an external answer) and, when it is
\* not APPROVED, SetState(req.PaymentID, FAILED) and reply KYC_REQUIRED
ChargeCompliance(h) ==
    /\ hs[h].pc = "kyc"
    /\ \E answer \in {"APPROVED", "REJECTED", "ERROR"} :
          IF answer = "APPROVED"
          THEN /\ hs' = [hs EXCEPT ![h].pc = "init"]
               /\ UNCHANGED <<status, lastSet>>
          ELSE /\ lastSet' = SetCall(status, hs[h].req.payment_id, FAILED)
               /\ status' = SetState(status, hs[h].req.payment_id, FAILED)
               /\ hs' = Respond(h, 403, ErrorBody("KYC_REQUIRED", FAILED))
    /\ UNCHANGED <<kv, nextId, epoch, results, servers, reg, ds>>
    /\ UNCHANGED ctlVars

\* line 619: SetState(req.PaymentID, INITIATED)
ChargeInitiate(h) ==
    /\ hs[h].pc = "init"
    /\ lastSet' = SetCall(status, hs[h].req.payment_id, INITIATED)
    /\ status' = SetState(status, hs[h].req.payment_id, INITIATED)
    /\ hs' = [hs EXCEPT ![h].pc = "process"]
    /\ UNCHANGED <<kv, nextId, epoch, results, servers, reg, ds>>
    /\ UNCHANGED ctlVars

\* lines 620-631: SetState(req.PaymentID, PROCESSING), whose result is not
\* looked at, the "processing started" reply and go processPaymentAsync(...)
ChargeProcess(h) ==
    /\ hs[h].pc = "process"
    /\ lastSet' = SetCall(status, hs[h].req.payment_id, PROCESSING)
    /\ status' = SetState(status, hs[h].req.payment_id, PROCESSING)
    /\ hs' = Respond(h, 200, [kind |-> "started", status |-> PROCESSING,
                              payment_id |-> hs[h].req.payment_id])
    /\ ds' = [ds EXCEPT ![h] = [IdleDispatch EXCEPT !.pc = "start",
                                    !.paymentID = hs[h].req.payment_id]]
    /\ UNCHANGED <<kv, nextId, epoch, results, servers, reg>>
    /\ UNCHANGED ctlVars

\* ------------------------------------------------------------------------
\* processPaymentAsync
\* ------------------------------------------------------------------------
\* what one gateway call can come back with: a transport error (http.Post,
\* ReadAll or Unmarshal failed) or a decoded body with its HTTP status code
GatewayOutcomes ==
    {[transport |-> TRUE, status |-> "none", code |-> 0]} \cup
    [transport : {FALSE}, status : {"success", "failed", "pending", "none"},
     code : {200, 503}]

ResultBlob(finalStatus, id, gateway) ==
    [kind |-> "result", status |-> finalStatus, payment_id |-> id, gateway |-> gateway]

\* notifyClient builds an error envelope
ClientBlob(st, details) ==
    [kind |-> "error", code |-> "INTERNAL_ERROR", status |-> st, details |-> details]

\* lines 657-663: maxRetries := serverPool.GetServerCount(); an empty pool
\* ends the dispatch with SetState(FAILED) and notifyClient
DispatchStart(h) ==
    /\ ds[h].pc = "start"
    /\ IF Cardinality(servers) = 0
       THEN /\ lastSet' = SetCall(status, ds[h].paymentID, FAILED)
            /\ status' = SetState(status, ds[h].paymentID, FAILED)
            /\ ds' = [ds EXCEPT ![h].pc = "client_cache"]
       ELSE /\ ds' = [ds EXCEPT ![h].pc = "attempt", ![h].maxRetries = Cardinality(servers)]
            /\ UNCHANGED <<status, lastSet>>
    /\ UNCHANGED <<kv, nextId, epoch, results, servers, reg, hs>>
    /\ UNCHANGED ctlVars

\* notifyClient, line 818: rdb.Set("payment_result:"+id, ...)
NotifyClientCache(h) ==
    /\ ds[h].pc = "client_cache"
    /\ results' = [results EXCEPT ![ds[h].paymentID] = ClientBlob(FAILED, "no healthy servers")]
    /\ ds' = [ds EXCEPT ![h].pc = "notify",
                        ![h].msg = ClientBlob(FAILED, "no healthy servers")]
    /\ UNCHANGED <<status, lastSet, kv, nextId, epoch, servers, reg, hs>>
    /\ UNCHANGED ctlVars

\* the state the attempt asks for (lines 728-755), or none for a transport error
AttemptState(o) ==
    IF o.transport THEN "none"
    ELSE IF o.status = "success" THEN SUCCESS ELSE FAILED

\* lines 692-723 and 765-773: continue or break
AttemptContinues(o) ==
    IF o.transport THEN TRUE
    ELSE IF o.status = "success" \/ o.status = "failed" THEN FALSE
    ELSE o.code >= 500

\* one pass of the loop of lines 672-774: SelectServer, the gateway call,
\* the SetState the answer asks for, then continue or break; last is the
\* answer the loop ended on
DispatchAttempt(h) ==
    /\ ds[h].pc = "attempt"
    /\ ds[h].attempt < ds[h].maxRetries
    /\ \E srv \in servers, o \in GatewayOutcomes :
          LET id == ds[h].paymentID
              continues == AttemptContinues(o)
              next == ds[h].attempt + 1
          IN  /\ IF o.transport
                 THEN UNCHANGED <<status, lastSet>>
                 ELSE /\ lastSet' = SetCall(status, id, AttemptState(o))
                      /\ status' = SetState(status, id, AttemptState(o))
              /\ ds' = [ds EXCEPT ![h].selectedServer = srv,
                                  ![h].calls = @ + 1,
                                  ![h].last = IF continues /\ next < ds[h].maxRetries
                                              THEN NoAttempt ELSE o,
                                  ![h].attempt = IF continues THEN next ELSE @,
                                  ![h].pc = IF continues /\ next < ds[h].maxRetries
                                            THEN "attempt" ELSE "final"]
    /\ UNCHANGED <<kv, nextId, epoch, results, servers, reg, hs>>
    /\ UNCHANGED ctlVars

\* lines 776-778: force FAILED when the state is neither SUCCESS nor FAILED
DispatchFinalize(h) ==
    /\ ds[h].pc = "final"
    /\ LET id == ds[h].paymentID IN
       IF GetState(status, id) # SUCCESS /\ GetState(status, id) # FAILED
       THEN /\ lastSet' = SetCall(status, id, FAILED)
            /\ status' = SetState(status, id, FAILED)
       ELSE UNCHANGED <<status, lastSet>>
    /\ ds' = [ds EXCEPT ![h].pc = "read", ![h].last = NoAttempt]
    /\ UNCHANGED <<kv, nextId, epoch, results, servers, reg, hs>>
    /\ UNCHANGED ctlVars

\* line 780: finalStatus := GetState(paymentID)
DispatchReadFinal(h) ==
    /\ ds[h].pc = "read"
    /\ ds' = [ds EXCEPT ![h].pc = "cache", ![h].finalStatus = GetState(status, ds[h].paymentID)]
    /\ UNCHANGED <<status, lastSet, kv, nextId, epoch, results, servers, reg, hs>>
    /\ UNCHANGED ctlVars

\* lines 781-800: the result blob and rdb.Set("payment_result:"+id, ..., 24h)
DispatchCache(h) ==
    /\ ds[h].pc = "cache"
    /\ results' = [results EXCEPT ![ds[h].paymentID] =
                      ResultBlob(ds[h].finalStatus, ds[h].paymentID, ds[h].selectedServer)]
    /\ ds' = [ds EXCEPT ![h].pc = "notify",
                        ![h].msg = ResultBlob(ds[h].finalStatus, ds[h].paymentID,
                                              ds[h].selectedServer)]
    /\ UNCHANGED <<status, lastSet, kv, nextId, epoch, servers, reg, hs>>
    /\ UNCHANGED ctlVars

\* Notify, websockets.go lines 87-93: the connections of the payment are
\* read under the lock; with none of them the call is over
Subscribers(d) ==
    IF clients[d.paymentID].len = 0
    THEN [d EXCEPT !.pc = "done"]
    ELSE [d EXCEPT !.pc = "fanout", !.conns = Slice(clients[d.paymentID]),
                   !.idx = 0, !.shared = TRUE, !.sent = {}]

\* line 802 / line 821: wsManager.Notify, after which the goroutine returns
DispatchNotify(h) ==
    /\ ds[h].pc = "notify"
    /\ ds' = [ds EXCEPT ![h] = Subscribers(ds[h])]
    /\ UNCHANGED <<status, lastSet, kv, nextId, epoch, results, servers, reg, hs>>
    /\ UNCHANGED ctlVars

InProgress(h) == ds[h].pc \notin {"idle", "done"}

\* the 24 h TTL of a cached result runs out; it outlasts every dispatch
ExpireResult(p) ==
    /\ results[p] # NoResult
    /\ \A h \in ChargeSlots : ds[h].paymentID = p => ~InProgress(h)
    /\ results' = [results EXCEPT ![p] = NoResult]
    /\ UNCHANGED <<status, lastSet, kv, nextId, epoch, servers, reg, hs, ds>>
    /\ UNCHANGED ctlVars

\* ------------------------------------------------------------------------
\* The payment plane
\* ------------------------------------------------------------------------
Next ==
    \/ \E h \in PairSlots : ChargeReceive(h, ChargeRequests)
    \/ \E h \in PairSlots : ChargeLookup(h)
    \/ \E h \in PairSlots : ChargeMismatch(h)
    \/ \E h \in PairSlots : ChargeGetState(h)
    \/ \E h \in PairSlots : ChargeReplay(h)
    \/ \E h \in PairSlots : ChargeCompliance(h)
    \/ \E h \in PairSlots : ChargeInitiate(h)
    \/ \E h \in PairSlots : ChargeProcess(h)
    \/ \E h \in PairSlots : DispatchStart(h)
    \/ \E h \in PairSlots : NotifyClientCache(h)
    \/ \E h \in PairSlots : DispatchAttempt(h)
    \/ \E h \in PairSlots : DispatchFinalize(h)
    \/ \E h \in PairSlots : DispatchReadFinal(h)
    \/ \E h \in PairSlots : DispatchCache(h)
    \/ \E h \in PairSlots : DispatchNotify(h)
    \/ \E p \in PayIds : ExpireResult(p)

\* three charges that all carry the registered payment id 1
SamePayment == {[id |-> "o1", amount |-> 5000, payment_id |-> 1, user_id |-> ""]}

\* the pool holds one gateway, so a dispatch makes one attempt
InitReplay ==
    /\ InitBreakers
    /\ InitRegistry
    /\ status = <<>>
    /\ lastSet = NoCall
    /\ kv = RegisteredIntents
    /\ nextId = 2
    /\ epoch = [f \in Fingerprints |-> 0]
    /\ results = [p \in PayIds |-> NoResult]
    /\ servers = {"gw1"}
    /\ reg = [r \in RegSlots |-> IdleReg]
    /\ hs = [h \in ChargeSlots |-> IdleCharge]
    /\ ds = [h \in ChargeSlots |-> IdleDispatch]
    /\ InitSubscribers
    /\ InitLibrary

NextReplay ==
    \/ \E h \in ChargeSlots : ChargeReceive(h, SamePayment)
    \/ \E h \in ChargeSlots : ChargeLookup(h)
    \/ \E h \in ChargeSlots : ChargeGetState(h)
    \/ \E h \in ChargeSlots : ChargeReplay(h)
    \/ \E h \in ChargeSlots : ChargeInitiate(h)
    \/ \E h \in ChargeSlots : ChargeProcess(h)
    \/ \E h \in ChargeSlots : DispatchStart(h)
    \/ \E h \in ChargeSlots : DispatchAttempt(h)
    \/ \E h \in ChargeSlots : DispatchFinalize(h)
    \/ \E h \in ChargeSlots : DispatchReadFinal(h)
    \/ \E h \in ChargeSlots : DispatchCache(h)
    \/ \E h \in ChargeSlots : DispatchNotify(h)
    \/ \E p \in PayIds : ExpireResult(p)

\* the intent store alone
NextIntent ==
    \/ \E r \in RegSlots : RegReceive(r)
    \/ \E r \in RegSlots : PaymentKeyGet(r)
    \/ \E r \in RegSlots : PaymentKeySet(r)
    \/ \E r \in RegSlots : PaymentKeyDeleteGet(r)
    \/ \E r \in RegSlots : PaymentKeyDel(r)

vars == <<payVars, ctlVars>>

Init == InitPay

Spec == Init /\ [][Next]_vars

SpecReplay == InitReplay /\ [][NextReplay]_vars

SpecIntent == InitIntent /\ [][NextIntent]_vars

\* ------------------------------------------------------------------------
\* Properties of the payment plane
\* ------------------------------------------------------------------------
\* the transition graph of section 4.8
GraphEdges ==
    {<<INITIATED, PROCESSING>>, <<INITIATED, CANCELLED>>,
     <<PROCESSING, SUCCESS>>, <<PROCESSING, FAILED>>, <<PROCESSING, CANCELLED>>,
     <<FAILED, PROCESSING>>}

\* the first SetState for an id without a recorded state enters INITIATED
EntryCall(c) == ~c.present /\ c.to = INITIATED

\* C1: every SetState call succeeds exactly when it asks for an edge of the
\* graph (or enters INITIATED for an id seen for the first time), a call
\* that is refused leaves the stored state as it was, every change of a
\* payment's state is the change the last successful call asked for, and
\* SUCCESS and CANCELLED are never left.
C1_StateGraph ==
    /\ [](lastSet.id # NoId =>
            (lastSet.ok <=> (EntryCall(lastSet) \/ <<lastSet.from, lastSet.to>> \in GraphEdges)))
    /\ [][\A id \in PayIds :
            LET a == GetState(status, id)
                b == GetState(status', id)
            IN  /\ a # b => /\ lastSet'.ok /\ lastSet'.id = id
                            /\ lastSet'.from = a /\ lastSet'.to = b
                            /\ <<a, b>> \in GraphEdges
                /\ a \in {SUCCESS, CANCELLED} => b = a]_vars

\* C2: at most one processPaymentAsync is in progress for a payment id.
C2_SingleFlight ==
    \A p \in PayIds :
        Cardinality({h \in ChargeSlots : InProgress(h) /\ ds[h].paymentID = p}) <= 1

Registered(r) == reg[r].pc = "done" /\ reg[r].method = "POST"

\* C3: registrations of one fingerprint that no delete separates are answered
\* with the same payment id, and the store still maps the fingerprint to the
\* id a caller was handed as long as no delete has been performed since.
C3_SameId ==
    /\ \A r1, r2 \in RegSlots :
          (Registered(r1) /\ Registered(r2) /\ reg[r1].fp = reg[r2].fp
             /\ reg[r1].epoch = reg[r2].epoch) => reg[r1].resp = reg[r2].resp
    /\ \A r \in RegSlots :
          (Registered(r) /\ epoch[reg[r].fp] = reg[r].epoch) => kv[reg[r].fp] = reg[r].resp

\* C4: a dispatch makes at most maxRetries gateway calls, and at the moment
\* it returns the payment's state is SUCCESS or FAILED.
C4_Finalized ==
    /\ [](\A h \in ChargeSlots : InProgress(h) => ds[h].calls <= Cardinality(servers))
    /\ [][\A h \in ChargeSlots :
            (ds[h].pc # "done" /\ ds'[h].pc = "done")
                => GetState(status', ds[h].paymentID) \in {SUCCESS, FAILED}]_vars

\* the charge in slot h found the payment in SUCCESS or FAILED
ReadTerminal(h) == hs[h].pc \in {"replay", "done"} /\ hs[h].cur \in {SUCCESS, FAILED}

Replayed(h) == hs[h].pc = "done" /\ hs[h].cur \in {SUCCESS, FAILED}

\* a charge that finds the payment terminal starts no dispatch, calls no
\* gateway and is answered 200
ReplayStartsNothing ==
    \A h \in ChargeSlots :
        /\ ReadTerminal(h) => ds[h] = IdleDispatch
        /\ Replayed(h) => hs[h].code = 200

\* the step that reads a terminal state goes on to the replay, and the
\* replay step answers with body b(h); neither touches the status map, the
\* result cache or a dispatch
ReadsTerminal(h) ==
    /\ hs[h].pc = "getstate" /\ hs'[h] # hs[h]
    /\ GetState(status, hs[h].req.payment_id) \in {SUCCESS, FAILED}

Replays(h) == hs[h].pc = "replay" /\ hs'[h] # hs[h]

Inert == status' = status /\ ds' = ds /\ results' = results

CachedBody(h) == {results[hs[h].req.payment_id]} \ {NoResult}

CachedOrGeneratedBody(h) ==
    IF results[hs[h].req.payment_id] # NoResult
    THEN {results[hs[h].req.payment_id]}
    ELSE {[kind |-> "already_processed", status |-> hs[h].cur,
           payment_id |-> hs[h].req.payment_id]}

C6_IdenticalReplay ==
    \A h1, h2 \in ChargeSlots :
        (Replayed(h1) /\ Replayed(h2) /\ hs[h1].req.payment_id = hs[h2].req.payment_id)
            => hs[h1].body = hs[h2].body

\* the dispatch in slot h makes a gateway call in this step
CallsGateway(h) == ds'[h].calls > ds[h].calls

\* C13: every charge the dispatcher sends out is recorded, with its
\* outcome, in the breaker of a provider, so that ten failures in a row
\* open that breaker and keep the next charge away from the provider.
C13_OutcomesReachBreaker ==
    [][\A h \in ChargeSlots :
          CallsGateway(h) =>
              \E p \in Providers : cb'[p].totalRequests = cb[p].totalRequests + 1]_vars

\* the charge in slot h is answered in this step from the position pc
AnsweredFrom(h, pc) == hs[h].pc = pc /\ hs'[h].pc = "done"

\* C14: a charge whose payment_id is not the id stored for its fingerprint
\* is answered 401 PAYMENT_ID_MISMATCH, starts no dispatch, and leaves the
\* submitted payment_id in FAILED.
C14_MismatchFails ==
    [][\A h \in ChargeSlots :
          AnsweredFrom(h, "mismatch") =>
              /\ hs'[h].code = 401
              /\ hs'[h].body.code = "PAYMENT_ID_MISMATCH"
              /\ ds' = ds /\ ds[h] = IdleDispatch
              /\ GetState(status', hs[h].req.payment_id) = FAILED]_vars

\* C15: a charge whose compliance check does not come back APPROVED is
\* answered 403 KYC_REQUIRED, reaches no gateway, and leaves the payment
\* in FAILED.
C15_KycRejectionFails ==
    [][\A h \in ChargeSlots :
          AnsweredFrom(h, "kyc") =>
              /\ hs'[h].code = 403
              /\ hs'[h].body.code = "KYC_REQUIRED"
              /\ ds' = ds /\ ds[h] = IdleDispatch
              /\ GetState(status', hs[h].req.payment_id) = FAILED]_vars

\* ------------------------------------------------------------------------
\* The breaker plane: Execute on the breaker of one provider
\* ------------------------------------------------------------------------
\* the payment plane at rest
InitPayIdle ==
    /\ status = <<>>
    /\ lastSet = NoCall
    /\ kv = RegisteredIntents
    /\ nextId = 2
    /\ epoch = [f \in Fingerprints |-> 0]
    /\ results = [p \in PayIds |-> NoResult]
    /\ servers = ServerURLs
    /\ reg = [r \in RegSlots |-> IdleReg]
    /\ hs = [h \in ChargeSlots |-> IdleCharge]
    /\ ds = [h \in ChargeSlots |-> IdleDispatch]
    /\ InitSubscribers
    /\ InitLibrary

\* the outcomes a breaker may have recorded when it admits a request:
\* MaxRequests while CLOSED, and room for the probes that close it otherwise
RequestBound(b) ==
    IF b.state = StateClosed THEN MaxRequests ELSE MaxRequests + HalfOpenMaxRequests

\* Execute, first half: beforeRequest; a request let through is in flight
BeforeRequest(p) ==
    LET r == beforeRequest(cb[p], now) IN
    /\ r.err \/ /\ inflight[p] < MaxInflight
                /\ cb[p].totalRequests + inflight[p] < RequestBound(cb[p])
    /\ cb' = [cb EXCEPT ![p] = r.cb]
    /\ inflight' = IF r.err THEN inflight ELSE [inflight EXCEPT ![p] = @ + 1]
    /\ outcome' = [op |-> "beforeRequest", provider |-> p, err |-> r.err]
    /\ UNCHANGED <<now, payVars, regVars>>

\* Execute, second half: fn() has returned and afterRequest records it
AfterRequest(p, success) ==
    /\ inflight[p] > 0
    /\ cb' = [cb EXCEPT ![p] = afterRequest(cb[p], success, now)]
    /\ inflight' = [inflight EXCEPT ![p] = @ - 1]
    /\ outcome' = [op |-> "afterRequest", provider |-> p, err |-> ~success]
    /\ UNCHANGED <<now, payVars, regVars>>

\* Reset (AdminCircuitBreakerResetHandler)
Reset(p) ==
    /\ cb' = [cb EXCEPT ![p] = NewCircuitBreaker(now)]
    /\ outcome' = [op |-> "Reset", provider |-> p, err |-> FALSE]
    /\ UNCHANGED <<now, inflight, payVars, regVars>>

\* 30 seconds pass
Tick ==
    /\ now < MaxTime
    /\ now' = now + 1
    /\ UNCHANGED <<cb, inflight, outcome, payVars, regVars>>

InitBreaker == InitBreakers /\ InitRegistry /\ InitPayIdle

NextBreaker ==
    \/ BeforeRequest("stripe")
    \/ \E success \in BOOLEAN : AfterRequest("stripe", success)
    \/ Reset("stripe")
    \/ Tick

SpecBreaker == InitBreaker /\ [][NextBreaker]_vars

\* ------------------------------------------------------------------------
\* Properties of the breaker plane
\* ------------------------------------------------------------------------
\* a step of afterRequest on the breaker of p
Recorded(p) == inflight'[p] < inflight[p]

SamplesInWindow(b, t) == BagCardinality(cleanOldHistory(b.requestHistory, t))

ConsecutiveRule(b) == b.failureCount >= FailureThreshold

\* the error-rate rule as section 3 words it: the window holds 10 samples
WindowRule(b, t) ==
    /\ RateAtLeast(calculateErrorRate(b, t), ErrorRateThreshold)
    /\ SamplesInWindow(b, t) >= MinTotalRequests

\* C9: a CLOSED breaker that a recorded outcome moves to OPEN has reached
\* failure_threshold consecutive failures, or its window holds at least 10
\* samples with an error rate at or above the rate threshold; it does not
\* open on the error-rate rule while fewer than 10 requests are in the window.
C9_OpensByRule ==
    [][\A p \in Providers :
        (cb[p].state = StateClosed /\ Recorded(p) /\ cb'[p].state = StateOpen)
        => (ConsecutiveRule(cb'[p]) \/ WindowRule(cb'[p], now))]_vars

\* time.Since(lastStateChange) has not passed the cooldown
WithinCooldown(p) == now - cb[p].lastStateChange <= CooldownPeriod

Rejects(p) == beforeRequest(cb[p], now) = [cb |-> cb[p], err |-> TRUE]

Probes(p) ==
    /\ ~beforeRequest(cb[p], now).err
    /\ beforeRequest(cb[p], now).cb.state = StateHalfOpen

\* C10: recording the failure that brings a CLOSED breaker to failure_threshold
\* consecutive failures opens it at that instant; an OPEN breaker rejects
\* every beforeRequest while the cooldown since its opening has not elapsed
\* and stays OPEN with its opening time (only Reset closes it earlier); the
\* first beforeRequest after the cooldown moves it to HALF_OPEN and is let
\* through.
C10_OpenUntilCooldown ==
    /\ [](\A p \in Providers :
            cb[p].state = StateOpen
            => IF WithinCooldown(p) THEN Rejects(p) ELSE Probes(p))
    /\ [][\A p \in Providers :
            /\ (cb[p].state = StateClosed /\ Recorded(p)
                /\ cb'[p].failureCount >= FailureThreshold)
               => (cb'[p].state = StateOpen /\ cb'[p].lastStateChange = now)
            /\ (cb[p].state = StateOpen /\ cb'[p] # cb[p])
               => \/ /\ cb'[p].state = StateOpen
                     /\ cb'[p].lastStateChange = cb[p].lastStateChange
                  \/ /\ ~WithinCooldown(p)
                     /\ cb'[p].state = StateHalfOpen
                     /\ inflight'[p] = inflight[p] + 1
                     /\ outcome' = [op |-> "beforeRequest", provider |-> p, err |-> FALSE]
                  \/ outcome' = [op |-> "Reset", provider |-> p, err |-> FALSE]]_vars

\* the breaker opened on consecutive failures and, one cooldown later to the
\* tick, has just rejected a request
C10_Witness ==
    \E p \in Providers :
        /\ cb[p].state = StateOpen
        /\ cb[p].failureCount >= FailureThreshold
        /\ now - cb[p].lastStateChange = CooldownPeriod
        /\ outcome = [op |-> "beforeRequest", provider |-> p, err |-> TRUE]

\* C11: a failure recorded while the breaker is HALF_OPEN moves it to OPEN
\* with the cooldown counted from that failure: the breaker is stamped with
\* the time of the failure and rejects from then on, and every OPEN breaker
\* keeps rejecting, with its stamp, while no more than the cooldown has
\* passed since the stamp.
C11_ReopenRestartsCooldown ==
    /\ [](\A p \in Providers :
            (cb[p].state = StateOpen /\ WithinCooldown(p)) => Rejects(p))
    /\ [][\A p \in Providers :
            /\ (cb[p].state = StateHalfOpen /\ Recorded(p) /\ outcome'.err)
               => /\ cb'[p].state = StateOpen
                  /\ cb'[p].lastStateChange = now
                  /\ beforeRequest(cb'[p], now') = [cb |-> cb'[p], err |-> TRUE]
            /\ (cb[p].state = StateOpen /\ WithinCooldown(p)
                /\ outcome'.op # "Reset")
               => /\ cb'[p].state = StateOpen
                  /\ cb'[p].lastStateChange = cb[p].lastStateChange]_vars

\* every request so far failed, the breaker was reopened by the failure of
\* a probe (failureCount restarted at the probe), and one cooldown later to
\* the tick it has just rejected a request
C11_Witness ==
    \E p \in Providers :
        /\ cb[p].state = StateOpen
        /\ cb[p].totalRequests > FailureThreshold
        /\ cb[p].errorCount = cb[p].totalRequests
        /\ cb[p].failureCount < FailureThreshold
        /\ cb[p].lastStateChange > CooldownPeriod
        /\ now - cb[p].lastStateChange = CooldownPeriod
        /\ outcome = [op |-> "beforeRequest", provider |-> p, err |-> TRUE]

\* a step of afterRequest on the breaker of p that records a success
RecordedSuccess(p) == Recorded(p) /\ ~outcome'.err

\* C12: the count of consecutive successes starts at zero when the breaker
\* enters HALF_OPEN, grows by one with each success recorded while it is
\* HALF_OPEN and by nothing else, and a recorded failure ends HALF_OPEN; the
\* breaker leaves HALF_OPEN for CLOSED (Reset aside) only on the recorded
\* success that brings this count to half_open_max_requests, and at that
\* moment its failure, success, error and total-request counters are zero.
C12_ClosesAfterProbes ==
    [][\A p \in Providers :
        /\ (cb[p].state # StateHalfOpen /\ cb'[p].state = StateHalfOpen)
           => cb'[p].successCount = 0
        /\ (cb[p].state = StateHalfOpen /\ cb'[p].state = StateHalfOpen)
           => cb'[p].successCount
                 = cb[p].successCount + (IF RecordedSuccess(p) THEN 1 ELSE 0)
        /\ (cb[p].state = StateHalfOpen /\ Recorded(p) /\ outcome'.err)
           => cb'[p].state # StateHalfOpen
        /\ (cb[p].state = StateHalfOpen /\ cb'[p].state = StateClosed
            /\ outcome'.op # "Reset")
           => /\ RecordedSuccess(p)
              /\ cb[p].successCount + 1 >= HalfOpenMaxRequests
              /\ cb'[p].failureCount = 0 /\ cb'[p].successCount = 0
              /\ cb'[p].errorCount = 0 /\ cb'[p].totalRequests = 0]_vars

\* the breaker has just been closed by the success of a probe
C12_Witness ==
    \E p \in Providers :
        /\ cb[p].state = StateClosed
        /\ cb[p].lastStateChange > CooldownPeriod
        /\ cb[p].totalRequests = 0
        /\ outcome = [op |-> "afterRequest", provider |-> p, err |-> FALSE]

\* ------------------------------------------------------------------------
\* Provider registry (part_015) and selector (part_001, lines 1-311)
\* ------------------------------------------------------------------------
\* the three providers main registers: priority, SLA and capabilities
MaxLatencyP95Ms == [stripe |-> 500, razorpay |-> 600, klarna |-> 700]

Capabilities ==
    [stripe |-> [MinAmountCents |-> 50, MaxAmountCents |-> 99999999,
                 SupportedCurrencies |-> {"USD", "EUR", "GBP", "INR"}],
     razorpay |-> [MinAmountCents |-> 100, MaxAmountCents |-> 10000000,
                   SupportedCurrencies |-> {"INR"}],
     klarna |-> [MinAmountCents |-> 1000, MaxAmountCents |-> 1000000,
                 SupportedCurrencies |-> {"USD", "EUR", "GBP", "SEK"}]]

Strategies == {"priority", "least_latency", "health_score", "affinity", "round_robin"}

\* the requests put to the selector; IdempotencyKey as its code points
SelectRequests ==
    {[Amount |-> 5000, Currency |-> "USD", UserID |-> "u1", IdempotencyKey |-> <<97>>],
     [Amount |-> 500, Currency |-> "INR", UserID |-> "u1", IdempotencyKey |-> <<97, 98>>],
     [Amount |-> 5000, Currency |-> "SEK", UserID |-> "", IdempotencyKey |-> <<98>>]}

\* amount limits and currency support, as both eligibility checks test them
Supports(p, req) ==
    /\ ~(req.Amount < Capabilities[p].MinAmountCents
         \/ req.Amount > Capabilities[p].MaxAmountCents)
    /\ req.Currency \in Capabilities[p].SupportedCurrencies

\* the name, or NoProvider for the error (not found, disabled)
GetPaymentProvider(name) ==
    IF name \in Providers /\ paymentProviders[name].Enabled THEN name ELSE NoProvider

\* the orders sortByPriority can leave a slice in: the bubble sort is stable
\* and the map is ranged over in any order
sortByPriority(eligible) ==
    {order \in [1..Cardinality(eligible) -> eligible] :
        /\ \A i, j \in DOMAIN order : i # j => order[i] # order[j]
        /\ \A i, j \in DOMAIN order : i < j => paymentProviders[order[i]].Priority
                                           <= paymentProviders[order[j]].Priority}

\* GetEligiblePaymentProviders with the Enabled test left out
GetEligibleIgnoringEnabled(req) ==
    sortByPriority({p \in Providers :
        /\ cb[p].state # StateOpen
        /\ Supports(p, req)})

\* GetEligiblePaymentProviders with the amount limits taken as exclusive
GetEligibleStrictLimits(req) ==
    sortByPriority({p \in Providers :
        /\ paymentProviders[p].Enabled
        /\ cb[p].state # StateOpen
        /\ req.Amount > Capabilities[p].MinAmountCents
        /\ req.Amount < Capabilities[p].MaxAmountCents
        /\ req.Currency \in Capabilities[p].SupportedCurrencies})

\* the slices the call can return; none when it returns the error
GetEligiblePaymentProviders(req) ==
    sortByPriority({p \in Providers :
        /\ paymentProviders[p].Enabled
        /\ cb[p].state # StateOpen
        /\ Supports(p, req)})

\* isProviderEligible with the breaker test left out
isProviderEligibleIgnoringBreaker(p, req) ==
    /\ paymentProviders[p].Enabled
    /\ Supports(p, req)

isProviderEligible(p, req) ==
    /\ paymentProviders[p].Enabled
    /\ Supports(p, req)
    /\ cb[p].state # StateOpen

Elements(order) == {order[i] : i \in DOMAIN order}

\* scores on a scale where One is 1.0
One == 900

getProviderLatencyP95(p) ==
    IF MaxLatencyP95Ms[p] > 0 THEN MaxLatencyP95Ms[p] ELSE 500

getProviderSuccessRate(p) == 855      \* 0.95

getProviderLatencyScore(p) ==
    LET p95 == getProviderLatencyP95(p) IN
    IF p95 < 100 THEN One
    ELSE IF p95 > 1000 THEN 0
    ELSE One - (p95 - 100)

getProviderAvailabilityScore(p) ==
    CASE cb[p].state = StateClosed -> One
      [] cb[p].state = StateHalfOpen -> One \div 2
      [] OTHER -> 0

\* ten times the health score: weights 0.4, 0.3, 0.3
calculateHealthScore(p) ==
    getProviderSuccessRate(p) * 4 + getProviderLatencyScore(p) * 3
        + getProviderAvailabilityScore(p) * 3

\* a uint32 as two 16-bit halves, so that h*31 + c wraps at 2^32
Half == 65536

RECURSIVE hashFrom(_, _)
hashFrom(h, s) ==
    IF s = <<>> THEN h
    ELSE LET lo == h.lo * 31 + Head(s)
         IN  hashFrom([hi |-> (h.hi * 31 + (lo \div Half)) % Half, lo |-> lo % Half],
                      Tail(s))

hashString(s) == hashFrom([hi |-> 0, lo |-> 0], s)

\* int(hash) % n
HashMod(h, n) == ((h.hi % n) * (Half % n) + (h.lo % n)) % n

\* each select operator: the providers the call can return, NoProvider for
\* an error.  sort.Slice is not stable: any provider at the best value can
\* come first.
selectByPriority(req) ==
    LET orders == GetEligiblePaymentProviders(req) IN
    {IF order = <<>> THEN NoProvider ELSE order[1] : order \in orders}

selectByLeastLatency(req) ==
    LET orders == GetEligiblePaymentProviders(req) IN
    UNION {IF order = <<>> THEN {NoProvider}
           ELSE {p \in Elements(order) :
                    \A q \in Elements(order) :
                        ~(getProviderLatencyP95(q) < getProviderLatencyP95(p))}
           : order \in orders}

selectByHealthScore(req) ==
    LET orders == GetEligiblePaymentProviders(req) IN
    UNION {IF order = <<>> THEN {NoProvider}
           ELSE {p \in Elements(order) :
                    \A q \in Elements(order) :
                        ~(calculateHealthScore(q) > calculateHealthScore(p))}
           : order \in orders}

selectRoundRobin(req) ==
    LET orders == GetEligiblePaymentProviders(req) IN
    {IF order = <<>> THEN NoProvider
     ELSE order[HashMod(hashString(req.IdempotencyKey), Len(order)) + 1] : order \in orders}

\* the affinity selectByAffinity reads from the store ("" when it reads none)
StoredAffinity(req) == IF req.UserID = "" THEN NoProvider ELSE affinity[req.UserID]

\* the stored provider is used: looked up, enabled and eligible
AffinityHolds(req) ==
    LET config == GetPaymentProvider(StoredAffinity(req)) IN
    /\ config # NoProvider
    /\ paymentProviders[config].Enabled
    /\ isProviderEligible(config, req)

selectByAffinity(req) ==
    IF AffinityHolds(req) THEN {StoredAffinity(req)} ELSE selectByHealthScore(req)

SelectProviderResults(strategy, req) ==
    CASE strategy = "least_latency" -> selectByLeastLatency(req)
      [] strategy = "health_score" -> selectByHealthScore(req)
      [] strategy = "affinity" -> selectByAffinity(req)
      [] strategy = "round_robin" -> selectRoundRobin(req)
      [] OTHER -> selectByPriority(req)

EnableProvider(name) ==
    /\ paymentProviders' = [paymentProviders EXCEPT ![name].Enabled = TRUE]
    /\ UNCHANGED <<affinity, selected, brkVars, payVars>>

DisableProvider(name) ==
    /\ paymentProviders' = [paymentProviders EXCEPT ![name].Enabled = FALSE]
    /\ UNCHANGED <<affinity, selected, brkVars, payVars>>

\* one SelectProvider call of a selector built with the strategy; the
\* affinity strategy stores the provider it fell back to
SelectProvider(strategy, req) ==
    \E provider \in SelectProviderResults(strategy, req) :
        /\ selected' = [strategy |-> strategy, req |-> req,
                        providerName |-> IF strategy = "affinity"
                                         THEN StoredAffinity(req) ELSE NoProvider,
                        provider |-> provider]
        /\ affinity' = IF /\ strategy = "affinity"
                          /\ ~AffinityHolds(req)
                          /\ provider # NoProvider
                          /\ req.UserID # ""
                       THEN [affinity EXCEPT ![req.UserID] = provider]
                       ELSE affinity
        /\ UNCHANGED <<paymentProviders, brkVars, payVars>>

RECURSIVE RecordFailures(_, _, _)
RecordFailures(b, n, t) ==
    IF n = 0 THEN b ELSE RecordFailures(afterRequest(b, FALSE, t), n - 1, t)

\* a breaker that FailureThreshold failures at time 0 have opened, and the
\* same breaker after the first beforeRequest past its cooldown
Tripped == RecordFailures(NewCircuitBreaker(0), FailureThreshold, 0)
Probing == beforeRequest(Tripped, CooldownPeriod + 1).cb

\* the registry as main leaves it, with every breaker CLOSED, OPEN or
\* HALF_OPEN and any affinity an earlier selection has stored
InitSelector ==
    /\ now = CooldownPeriod + 1
    /\ cb \in [Providers -> {NewCircuitBreaker(0), Tripped, Probing}]
    /\ inflight = [p \in Providers |-> 0]
    /\ outcome = NoOutcome
    /\ paymentProviders =
           [p \in Providers |-> [Enabled |-> TRUE, Priority |-> Priority[p]]]
    /\ affinity \in [Users -> Providers \cup {NoProvider}]
    /\ selected = [strategy |-> "none"]
    /\ InitPayIdle

NextSelector ==
    \/ \E name \in Providers : EnableProvider(name)
    \/ \E name \in Providers : DisableProvider(name)
    \/ \E strategy \in Strategies, req \in SelectRequests : SelectProvider(strategy, req)
    \/ \E p \in Providers : Reset(p)

SpecSelector == InitSelector /\ [][NextSelector]_vars

\* ------------------------------------------------------------------------
\* Properties of the selector
\* ------------------------------------------------------------------------
\* C7: in every state the registry reaches through enable and disable
\* operations, under every routing strategy and for every request,
\* SelectProvider returns no provider that is disabled, a provider named by
\* a stale affinity mapping included.
C7_NeverDisabled ==
    \A strategy \in Strategies, req \in SelectRequests :
        \A provider \in SelectProviderResults(strategy, req) :
            provider # NoProvider => paymentProviders[provider].Enabled

\* the affinity strategy read a mapping to a provider that is disabled and
\* returned another provider
C7_Witness ==
    /\ selected.strategy = "affinity"
    /\ selected.providerName \in Providers
    /\ ~paymentProviders[selected.providerName].Enabled
    /\ selected.provider \in Providers \ {selected.providerName}
    /\ affinity[selected.req.UserID] = selected.provider

\* C8: under every routing strategy and for every request SelectProvider
\* returns no provider whose circuit breaker is OPEN, through the
\* eligibility filter and through the affinity path alike.
C8_NeverOpen ==
    \A strategy \in Strategies, req \in SelectRequests :
        \A provider \in SelectProviderResults(strategy, req) :
            provider # NoProvider => cb[provider].state # StateOpen

\* the affinity strategy read a mapping to an enabled provider whose breaker
\* is OPEN and returned another provider
C8_Witness ==
    /\ selected.strategy = "affinity"
    /\ selected.providerName \in Providers
    /\ paymentProviders[selected.providerName].Enabled
    /\ cb[selected.providerName].state = StateOpen
    /\ selected.provider \in Providers \ {selected.providerName}
    /\ cb[selected.provider].state # StateOpen

\* ------------------------------------------------------------------------
\* GetEligiblePaymentProviders at the capability limits
\* ------------------------------------------------------------------------
\* every provider's limits and the amounts one unit outside them
LimitAmounts ==
    UNION {{Capabilities[p].MinAmountCents - 1, Capabilities[p].MinAmountCents,
            Capabilities[p].MaxAmountCents, Capabilities[p].MaxAmountCents + 1} :
              p \in Providers}

Currencies == {"USD", "INR", "SEK", "JPY"}

LimitRequests ==
    [Amount : LimitAmounts, Currency : Currencies, UserID : {""}, IdempotencyKey : {<<97>>}]

\* one call; the empty slice stands for the error return
GetEligible(req) ==
    /\ \E eligible \in GetEligiblePaymentProviders(req) :
          selected' = [strategy |-> "none", req |-> req, eligible |-> eligible]
    /\ UNCHANGED <<paymentProviders, affinity, brkVars, payVars>>

\* the registry as main leaves it, with every breaker CLOSED, OPEN or
\* HALF_OPEN
InitEligible ==
    /\ now = CooldownPeriod + 1
    /\ cb \in [Providers -> {NewCircuitBreaker(0), Tripped, Probing}]
    /\ inflight = [p \in Providers |-> 0]
    /\ outcome = NoOutcome
    /\ InitRegistry
    /\ InitPayIdle

NextEligible ==
    \/ \E name \in Providers : EnableProvider(name)
    \/ \E name \in Providers : DisableProvider(name)
    \/ \E req \in LimitRequests : GetEligible(req)

SpecEligible == InitEligible /\ [][NextEligible]_vars

\* the providers the registry may hand out for the request
Admissible(req) ==
    {p \in Providers :
        /\ paymentProviders[p].Enabled
        /\ cb[p].state # StateOpen
        /\ Capabilities[p].MinAmountCents <= req.Amount
        /\ req.Amount <= Capabilities[p].MaxAmountCents
        /\ req.Currency \in Capabilities[p].SupportedCurrencies}

\* C19: a call of GetEligiblePaymentProviders returns each provider that is
\* enabled, not OPEN, has the amount inside its inclusive limits and lists
\* the currency, returns it once and returns no other, in an order of
\* non-decreasing priority.
C19_EligibleExactlyAdmissible ==
    [][("eligible" \in DOMAIN selected' /\ selected' # selected) =>
          LET eligible == selected'.eligible
          IN  /\ Elements(eligible) = Admissible(selected'.req)
              /\ Len(eligible) = Cardinality(Admissible(selected'.req))
              /\ \A i, j \in DOMAIN eligible :
                    i < j => paymentProviders[eligible[i]].Priority
                                 <= paymentProviders[eligible[j]].Priority]_vars

\* a request for klarna's upper limit in USD got stripe and klarna, in that
\* order, with all three providers enabled and none OPEN
C19_Witness ==
    /\ "eligible" \in DOMAIN selected
    /\ selected.req.Amount = Capabilities["klarna"].MaxAmountCents
    /\ selected.req.Currency = "USD"
    /\ selected.eligible = <<"stripe", "klarna">>
    /\ \A p \in Providers : paymentProviders[p].Enabled /\ cb[p].state # StateOpen

\* ------------------------------------------------------------------------
\* processPaymentAsync: the deferred recover of lines 638-643
\* ------------------------------------------------------------------------
\* a panic in the body of processPaymentAsync unwinds into the deferred
\* function, which recovers it
DispatchPanic(h) ==
    /\ ds[h].pc \in {"start", "client_cache", "attempt", "final", "read", "cache", "notify"}
    /\ ds' = [ds EXCEPT ![h].pc = "recover"]
    /\ UNCHANGED <<status, lastSet, kv, nextId, epoch, results, servers, reg, hs>>
    /\ UNCHANGED ctlVars

\* line 641, notifyClient(paymentID, FAILED, err): the rdb.Set of line 818
RecoverCache(h) ==
    /\ ds[h].pc = "recover"
    /\ results' = [results EXCEPT ![ds[h].paymentID] =
                      ClientBlob(FAILED, "internal processing error")]
    /\ ds' = [ds EXCEPT ![h].pc = "recover_notify",
                        ![h].msg = ClientBlob(FAILED, "internal processing error")]
    /\ UNCHANGED <<status, lastSet, kv, nextId, epoch, servers, reg, hs>>
    /\ UNCHANGED ctlVars

\* line 821: wsManager.Notify, after which the goroutine is over
RecoverNotify(h) ==
    /\ ds[h].pc = "recover_notify"
    /\ ds' = [ds EXCEPT ![h] = Subscribers(ds[h])]
    /\ UNCHANGED <<status, lastSet, kv, nextId, epoch, results, servers, reg, hs>>
    /\ UNCHANGED ctlVars

\* ------------------------------------------------------------------------
\* The charge path around the compliance threshold, with panics
\* ------------------------------------------------------------------------
ThresholdAmounts == {ComplianceThreshold - 1, ComplianceThreshold}

\* charges one unit below the threshold and at it, with and without a user
ThresholdRequests ==
    {[id |-> "o1", amount |-> a,
      payment_id |-> IF a < ComplianceThreshold THEN 1 ELSE 2, user_id |-> u] :
        a \in ThresholdAmounts, u \in {"", "u1"}}

\* the intents of caller o1 for the two amounts are registered
ThresholdIntents ==
    [f \in CallerIds \X ThresholdAmounts |->
        IF f[1] # "o1" THEN NoId ELSE IF f[2] < ComplianceThreshold THEN 1 ELSE 2]

InitCharge ==
    /\ InitBreakers
    /\ InitRegistry
    /\ status = <<>>
    /\ lastSet = NoCall
    /\ kv = ThresholdIntents
    /\ nextId = 2
    /\ epoch = [f \in Fingerprints |-> 0]
    /\ results = [p \in PayIds |-> NoResult]
    /\ servers = {"gw1"}
    /\ reg = [r \in RegSlots |-> IdleReg]
    /\ hs = [h \in ChargeSlots |-> IdleCharge]
    /\ ds = [h \in ChargeSlots |-> IdleDispatch]
    /\ InitSubscribers
    /\ InitLibrary

NextCharge ==
    \/ \E h \in PairSlots : ChargeReceive(h, ThresholdRequests)
    \/ \E h \in PairSlots : ChargeLookup(h)
    \/ \E h \in PairSlots : ChargeGetState(h)
    \/ \E h \in PairSlots : ChargeReplay(h)
    \/ \E h \in PairSlots : ChargeCompliance(h)
    \/ \E h \in PairSlots : ChargeInitiate(h)
    \/ \E h \in PairSlots : ChargeProcess(h)
    \/ \E h \in PairSlots : DispatchStart(h)
    \/ \E h \in PairSlots : DispatchAttempt(h)
    \/ \E h \in PairSlots : DispatchFinalize(h)
    \/ \E h \in PairSlots : DispatchReadFinal(h)
    \/ \E h \in PairSlots : DispatchCache(h)
    \/ \E h \in PairSlots : DispatchNotify(h)
    \/ \E h \in PairSlots : DispatchPanic(h)
    \/ \E h \in PairSlots : RecoverCache(h)
    \/ \E h \in PairSlots : RecoverNotify(h)

SpecCharge == InitCharge /\ [][NextCharge]_vars

\* ------------------------------------------------------------------------
\* Properties of the charge path
\* ------------------------------------------------------------------------
\* the request is one the compliance check is for
NeedsCompliance(req) == req.amount >= 1000000 /\ req.user_id # ""

Returns(h) == ds[h].pc # "done" /\ ds'[h].pc = "done"

\* C18: when a dispatch that panicked has been recovered and returns, the
\* payment is FAILED and a failure result is cached for it.
C18_PanicFinalizes ==
    [][\A h \in ChargeSlots :
          (ds[h].pc = "recover_notify" /\ Returns(h)) =>
              /\ GetState(status', ds[h].paymentID) = FAILED
              /\ results'[ds[h].paymentID] # NoResult
              /\ results'[ds[h].paymentID].status = FAILED]_vars

\* ------------------------------------------------------------------------
\* One charge while providers are taken out of service
\* ------------------------------------------------------------------------
SingleSlot == {"h1"}

NextOutage ==
    \/ \E h \in SingleSlot : ChargeReceive(h, SamePayment)
    \/ \E h \in SingleSlot : ChargeLookup(h)
    \/ \E h \in SingleSlot : ChargeGetState(h)
    \/ \E h \in SingleSlot : ChargeInitiate(h)
    \/ \E h \in SingleSlot : ChargeProcess(h)
    \/ \E h \in SingleSlot : DispatchStart(h)
    \/ \E h \in SingleSlot : NotifyClientCache(h)
    \/ \E h \in SingleSlot : DispatchAttempt(h)
    \/ \E h \in SingleSlot : DispatchFinalize(h)
    \/ \E h \in SingleSlot : DispatchReadFinal(h)
    \/ \E h \in SingleSlot : DispatchCache(h)
    \/ \E h \in SingleSlot : DispatchNotify(h)
    \/ \E name \in Providers : DisableProvider(name)

SpecOutage == InitPay /\ [][NextOutage]_vars

\* no provider is enabled with a breaker that is not OPEN
NoProviderAvailable ==
    \A p \in Providers : ~paymentProviders[p].Enabled \/ cb[p].state = StateOpen

\* C17: while no provider is eligible a dispatch calls no gateway, and a
\* dispatch that returns without having called one leaves the payment in
\* FAILED.
C17_FailsFastWithoutProvider ==
    [][\A h \in ChargeSlots :
          /\ NoProviderAvailable => ~CallsGateway(h)
          /\ (Returns(h) /\ ds[h].calls = 0)
                => GetState(status', ds[h].paymentID) = FAILED]_vars

\* ------------------------------------------------------------------------
\* Websocket subscribers (websockets.go)
\* ------------------------------------------------------------------------
\* the Notify of slot h holds a slice on the backing array that the
\* subscribers of payment p are in
Aliased(h, p) == ds[h].pc = "fanout" /\ ds[h].shared /\ ds[h].paymentID = p

\* what the dispatches read through their slices once the subscribers of p
\* are the slice t: the same array with its new contents when it was
\* written in place (kept), otherwise the array they hold, which nothing
\* writes any more
Reseen(p, t, kept) ==
    [h \in ChargeSlots |->
        IF ~Aliased(h, p) THEN ds[h]
        ELSE IF kept THEN [ds[h] EXCEPT !.conns = SubSeq(t.arr, 1, Len(@))]
        ELSE [ds[h] EXCEPT !.shared = FALSE]]

\* Notify, lines 101-106: the message is written to the next connection
\* of the slice read under the lock; the elements are read after the lock
\* was released. A write to a closed or broken connection fails and is
\* logged
NotifySend(h) ==
    /\ ds[h].pc = "fanout"
    /\ LET conn == ds[h].conns[ds[h].idx + 1]
           last == ds[h].idx + 1 = Len(ds[h].conns)
       IN  /\ ws' = IF ws[conn].pc \in {"closed", "broken"}
                    THEN ws
                    ELSE [ws EXCEPT ![conn].inbox = Append(@, ds[h].msg)]
           /\ ds' = [ds EXCEPT ![h] =
                        IF last
                        THEN [@ EXCEPT !.pc = "done", !.conns = <<>>, !.idx = 0,
                                       !.shared = FALSE, !.sent = {}]
                        ELSE [@ EXCEPT !.idx = @ + 1, !.sent = @ \cup {conn}]]
    /\ UNCHANGED <<status, lastSet, kv, nextId, epoch, results, servers, reg, hs, clients>>
    /\ UNCHANGED <<brkVars, regVars, libVars>>

\* m.clients[p] = append(m.clients[p], c), lines 54-56
Subscribe(p, c) ==
    LET t == appendConn(clients[p], c)
    IN  /\ clients' = [clients EXCEPT ![p] = t]
        /\ ds' = Reseen(p, t, clients[p].len < Len(clients[p].arr))

\* HandleWS that adds the connection to the subscribers at the upgrade,
\* ahead of the cache read
HandleWSUpgradeSubscribes(c) ==
    /\ ws[c].pc = "idle"
    /\ \E p \in PayIds :
          /\ ws' = [ws EXCEPT ![c].pc = "get", ![c].paymentID = p]
          /\ Subscribe(p, c)
    /\ UNCHANGED <<status, lastSet, kv, nextId, epoch, results, servers, reg, hs>>
    /\ UNCHANGED <<brkVars, regVars, libVars>>

\* HandleWS, lines 32-42: payment_id of the query and the upgrade
HandleWSUpgrade(c) ==
    /\ ws[c].pc = "idle"
    /\ \E p \in PayIds :
          ws' = [ws EXCEPT ![c].pc = "get", ![c].paymentID = p]
    /\ UNCHANGED clients
    /\ UNCHANGED <<status, lastSet, kv, nextId, epoch, results, servers, reg, hs, ds>>
    /\ UNCHANGED <<brkVars, regVars, libVars>>

\* lines 44-52: rdb.Get("payment_result:"+paymentID) and, on a hit,
\* conn.WriteJSON of what was read
HandleWSCached(c) ==
    /\ ws[c].pc = "get"
    /\ LET cached == results[ws[c].paymentID]
       IN  ws' = [ws EXCEPT ![c].pc = "register",
                            ![c].inbox = IF cached # NoResult THEN Append(@, cached) ELSE @]
    /\ UNCHANGED clients
    /\ UNCHANGED <<status, lastSet, kv, nextId, epoch, results, servers, reg, hs, ds>>
    /\ UNCHANGED <<brkVars, regVars, libVars>>

\* lines 54-58: the connection is appended to the payment's subscribers
HandleWSRegister(c) ==
    /\ ws[c].pc = "register"
    /\ Subscribe(ws[c].paymentID, c)
    /\ ws' = [ws EXCEPT ![c].pc = "subscribed"]
    /\ UNCHANGED <<status, lastSet, kv, nextId, epoch, results, servers, reg, hs>>
    /\ UNCHANGED <<brkVars, regVars, libVars>>

\* the connection fails (the peer is gone) while the reader goroutine is
\* still blocked in ReadMessage
ConnBreak(c) ==
    /\ ws[c].pc = "subscribed"
    /\ ws' = [ws EXCEPT ![c].pc = "broken"]
    /\ UNCHANGED clients
    /\ UNCHANGED <<status, lastSet, kv, nextId, epoch, results, servers, reg, hs, ds>>
    /\ UNCHANGED <<brkVars, regVars, libVars>>

\* lines 60-83: ReadMessage fails, the reader goroutine takes the
\* connection out of the subscribers (lines 63-69), drops the key of an
\* empty slice (lines 70-72) and closes the connection
ReaderClose(c) ==
    /\ ws[c].pc \in {"subscribed", "broken"}
    /\ LET p == ws[c].paymentID
           i == IndexOf(clients[p], c)
           t == IF i = 0 THEN clients[p] ELSE removeAt(clients[p], i)
       IN  /\ clients' = [clients EXCEPT ![p] = IF t.len = 0 THEN NilSlice ELSE t]
           /\ ds' = [h \in ChargeSlots |->
                        IF Aliased(h, p)
                        THEN [Reseen(p, t, TRUE)[h] EXCEPT !.shared = t.len > 0]
                        ELSE ds[h]]
    /\ ws' = [ws EXCEPT ![c].pc = "closed"]
    /\ UNCHANGED <<status, lastSet, kv, nextId, epoch, results, servers, reg, hs>>
    /\ UNCHANGED <<brkVars, regVars, libVars>>

\* one charge for payment 1 on a pool of one gateway, and the connections
NextSubscribe ==
    \/ \E h \in SingleSlot : ChargeReceive(h, SamePayment)
    \/ \E h \in SingleSlot : ChargeLookup(h)
    \/ \E h \in SingleSlot : ChargeGetState(h)
    \/ \E h \in SingleSlot : ChargeInitiate(h)
    \/ \E h \in SingleSlot : ChargeProcess(h)
    \/ \E h \in SingleSlot : DispatchStart(h)
    \/ \E h \in SingleSlot : DispatchAttempt(h)
    \/ \E h \in SingleSlot : DispatchFinalize(h)
    \/ \E h \in SingleSlot : DispatchReadFinal(h)
    \/ \E h \in SingleSlot : DispatchCache(h)
    \/ \E h \in SingleSlot : DispatchNotify(h)
    \/ \E h \in SingleSlot : NotifySend(h)
    \/ \E p \in PayIds : ExpireResult(p)
    \/ \E c \in Conns : HandleWSUpgrade(c)
    \/ \E c \in Conns : HandleWSCached(c)
    \/ \E c \in Conns : HandleWSRegister(c)
    \/ \E c \in Conns : ConnBreak(c)
    \/ \E c \in Conns : ReaderClose(c)

SpecSubscribe == InitReplay /\ [][NextSubscribe]_vars

\* ------------------------------------------------------------------------
\* Properties of the subscribers
\* ------------------------------------------------------------------------
\* c is among the subscribers of some payment
Subscribed(c) == \E p \in PayIds : IndexOf(clients[p], c) # 0

\* the messages c has received so far are the first of those it has
\* received after the step
KeepsInbox(c) ==
    /\ Len(ws'[c].inbox) >= Len(ws[c].inbox)
    /\ SubSeq(ws'[c].inbox, 1, Len(ws[c].inbox)) = ws[c].inbox

\* C20: a connection receives nothing and is no subscriber before its
\* cache read; the cache read, when it finds a result, sends that result
\* as the connection's first message; the connection becomes a subscriber
\* only afterwards, and what it has received stays ahead of everything it
\* is sent later.
C20_CachedResultFirst ==
    /\ [](\A c \in Conns :
            /\ ws[c].pc \in {"idle", "get"} => ws[c].inbox = <<>>
            /\ ws[c].pc \in {"idle", "get", "register"} => ~Subscribed(c))
    /\ [][\A c \in Conns :
            /\ (ws[c].pc = "get" /\ ws'[c].pc # "get"
                  /\ results[ws[c].paymentID] # NoResult)
                  => ws'[c].inbox = <<results[ws[c].paymentID]>>
            /\ KeepsInbox(c)]_vars

\* a connection found the result cached, subscribed, and then also
\* received the publish of the same dispatch
C20_Witness ==
    \E c \in Conns :
        /\ ws[c].pc = "subscribed"
        /\ Len(ws[c].inbox) = 2
        /\ ws[c].inbox[1] = results[ws[c].paymentID]
        /\ ws[c].inbox[1].kind = "result"
        /\ \E h \in ChargeSlots : ds[h].pc = "done" /\ ds[h].paymentID = ws[c].paymentID

\* the Notify of slot h makes its next write in this step
SendsNext(h) ==
    /\ ds[h].pc = "fanout"
    /\ ds'[h].idx # ds[h].idx \/ ds'[h].pc = "done"

\* the connection that write goes to
Target(h) == ds[h].conns[ds[h].idx + 1]

\* C21: one Notify call writes to a connection at most once, also while
\* other subscribers of the payment disconnect during the fan-out.
C21_AtMostOnce ==
    [][\A h \in ChargeSlots : SendsNext(h) => Target(h) \notin ds[h].sent]_vars

\* C22: a connection on which a write of Notify failed is no subscriber of
\* the payment once that write is over.
C22_FailedSendRemoves ==
    [][\A h \in ChargeSlots :
          (SendsNext(h) /\ ws[Target(h)].pc \in {"closed", "broken"})
              => IndexOf(clients'[ds[h].paymentID], Target(h)) = 0]_vars

\* ------------------------------------------------------------------
\* Retry strategy (unnamed/part_003), under DefaultRetryConfig
\* ------------------------------------------------------------------

MaxAttempts == 5
\* time.Duration values of the configuration, in microseconds
BaseDelay == 100000
MaxDelay == 5000000
\* JitterFactor 0.25 as a fraction
JitterNum == 1
JitterDen == 4
StatusRequestTimeout == 408
StatusTooManyRequests == 429
StatusBadGateway == 502
StatusServiceUnavailable == 503
StatusGatewayTimeout == 504

\* an int64 is its two's complement bytes, least significant first; the same
\* arithmetic at sixteen bytes holds every product below without wrapping
Int64Bytes == 8
WideBytes == 2 * Int64Bytes
Radix == 256

RECURSIVE Carry(_, _, _, _)
\* the bytes of the column sums raw from byte k on, modulo Radix^w
Carry(raw, k, c, w) ==
    IF k > w THEN <<>>
    ELSE LET v == raw[k] + c
         IN  <<v % Radix>> \o Carry(raw, k + 1, v \div Radix, w)

\* a natural below 2^31 in w bytes
Bytes(n, w) == [k \in 1..w |-> IF k <= 4 THEN (n \div (Radix ^ (k - 1))) % Radix ELSE 0]

Add(a, b, w) == Carry([k \in 1..w |-> a[k] + b[k]], 1, 0, w)

RECURSIVE Column(_, _, _, _)
\* a[1]*b[k] + a[2]*b[k-1] + ... + a[i]*b[k+1-i]
Column(a, b, k, i) ==
    IF i = 0 THEN 0 ELSE a[i] * b[k + 1 - i] + Column(a, b, k, i - 1)

Mul(a, b, w) == Carry([k \in 1..w |-> Column(a, b, k, k)], 1, 0, w)

Neg(a, w) == Add([k \in 1..w |-> (Radix - 1) - a[k]], Bytes(1, w), w)

Negative(a) == a[Len(a)] >= Radix \div 2

Positive(a) == ~Negative(a) /\ \E k \in 1..Len(a) : a[k] # 0

RECURSIVE Decimal(_, _)
\* the number a string of decimal digits denotes
Decimal(digits, w) ==
    IF digits = <<>> THEN Bytes(0, w)
    ELSE Add(Mul(Decimal(SubSeq(digits, 1, Len(digits) - 1), w), Bytes(10, w), w),
             Bytes(digits[Len(digits)], w), w)

\* a signed small integer
Signed(n, w) == IF n < 0 THEN Neg(Bytes(0 - n, w), w) ELSE Bytes(n, w)

\* time.Second and time.Microsecond in nanoseconds
Second(w) == Bytes(1000000000, w)
Microsecond(w) == Bytes(1000, w)

\* the time.Duration of a microsecond count
Micros(us) == Mul(Bytes(us, Int64Bytes), Microsecond(Int64Bytes), Int64Bytes)

\* the values of rand.Float64 the model draws, in eighths: 0, 1/8, ..., 7/8
RandDen == 8
RandSamples == 0..(RandDen - 1)

\* calculateBackoff with the jitter range not subtracted from the draw
calculateBackoffOneSided(attempt, r) ==
    LET exp    == BaseDelay * (2 ^ attempt)
        capped == IF exp > MaxDelay THEN MaxDelay ELSE exp
        jitter == ((2 * r) * capped * JitterNum) \div (RandDen * JitterDen)
        backoff == capped + jitter
    IN  IF backoff < 0 THEN BaseDelay ELSE backoff

\* backoff in microseconds; r is the draw of rand.Float64 in eighths.  With
\* the delays multiples of 100 ms every product below is a whole number of
\* microseconds, so the conversion of the float to a Duration truncates
\* nothing
calculateBackoff(attempt, r) ==
    LET exp    == BaseDelay * (2 ^ attempt)
        capped == IF exp > MaxDelay THEN MaxDelay ELSE exp
        \* rand*2*jitterRange - jitterRange, jitterRange = capped * 1/4
        jitter == ((2 * r - RandDen) * capped * JitterNum) \div (RandDen * JitterDen)
        backoff == capped + jitter
    IN  IF backoff < 0 THEN BaseDelay ELSE backoff

\* Retry-After header values: "" (also an absent header), a decimal integer
\* with an optional sign, an HTTP-date `until` seconds from now, or other text
NoHeader == [kind |-> "empty"]
IntHeader(neg, digits) == [kind |-> "int", neg |-> neg, digits |-> digits]
DateHeader(until) == [kind |-> "date", until |-> until]
TextHeader == [kind |-> "text"]

\* strconv.Atoi of a header it accepts (every sample has at most 11 digits)
Atoi(h, w) == IF h.neg THEN Neg(Decimal(h.digits, w), w) ELSE Decimal(h.digits, w)

parseRetryAfter(h) ==
    CASE h.kind = "empty" -> Bytes(0, Int64Bytes)
      [] h.kind = "int"   -> Mul(Atoi(h, Int64Bytes), Second(Int64Bytes), Int64Bytes)
      [] h.kind = "date"  ->
            LET duration == Mul(Signed(h.until, Int64Bytes), Second(Int64Bytes), Int64Bytes)
            IN  IF Negative(duration) THEN Bytes(0, Int64Bytes) ELSE duration
      [] OTHER            -> Bytes(0, Int64Bytes)

\* an error value: whether a *net.OpError is in its chain, what its Timeout
\* method answers if it has one, and the phrases of its message
NoError == [nil |-> TRUE]
NetworkErrorPatterns ==
    {"connection reset", "connection refused", "no such host",
     "network is unreachable", "network is down", "broken pipe"}

\* strings.ToLower on the phrases of the sampled messages
ToLower(phrase) ==
    CASE phrase = "Connection Refused" -> "connection refused"
      [] phrase = "Timeout"            -> "timeout"
      [] OTHER                         -> phrase

\* strings.Contains(strings.ToLower(err.Error()), pattern)
Contains(err, pattern) == \E phrase \in err.text : ToLower(phrase) = pattern

isNetworkError(err) ==
    /\ ~err.nil
    /\ \/ err.opError
       \/ \E pattern \in NetworkErrorPatterns : Contains(err, pattern)

isTimeoutError(err) ==
    /\ ~err.nil
    /\ IF err.timeout # "absent" THEN err.timeout = "true"
       ELSE Contains(err, "timeout") \/ Contains(err, "deadline exceeded")

isConnectionRefused(err) ==
    /\ ~err.nil
    /\ Contains(err, "connection refused")

NoResponse == [nil |-> TRUE]
Response(h) == [nil |-> FALSE, RetryAfter |-> h]

RetryDecision(retryable, backoff, reason) ==
    [ShouldRetry |-> retryable, Backoff |-> backoff, Reason |-> reason]

NoBackoff == Bytes(0, Int64Bytes)

\* 408 is answered like every other client error
handleHTTPStatusFatal408(statusCode, attempt, resp, r) ==
    IF statusCode >= 200 /\ statusCode < 300 THEN RetryDecision(FALSE, NoBackoff, "success")
    ELSE IF statusCode >= 400 /\ statusCode < 500 THEN
        IF statusCode = StatusTooManyRequests THEN
            LET retryAfter == IF resp.nil THEN NoBackoff ELSE parseRetryAfter(resp.RetryAfter)
            IN  RetryDecision(TRUE,
                              IF Positive(retryAfter) THEN retryAfter
                              ELSE Micros(calculateBackoff(attempt, r)),
                              "rate_limited")
        ELSE RetryDecision(FALSE, NoBackoff, "client_error")
    ELSE IF statusCode >= 500 THEN
        RetryDecision(TRUE, Micros(calculateBackoff(attempt, r)),
                      CASE statusCode = StatusBadGateway         -> "bad_gateway"
                        [] statusCode = StatusServiceUnavailable -> "service_unavailable"
                        [] statusCode = StatusGatewayTimeout     -> "gateway_timeout"
                        [] OTHER                                 -> "server_error")
    ELSE RetryDecision(FALSE, NoBackoff, "unknown_status")

handleHTTPStatus(statusCode, attempt, resp, r) ==
    IF statusCode >= 200 /\ statusCode < 300 THEN RetryDecision(FALSE, NoBackoff, "success")
    ELSE IF statusCode >= 400 /\ statusCode < 500 THEN
        IF statusCode = StatusRequestTimeout THEN
            RetryDecision(TRUE, Micros(calculateBackoff(attempt, r)), "request_timeout")
        ELSE IF statusCode = StatusTooManyRequests THEN
            LET retryAfter == IF resp.nil THEN NoBackoff ELSE parseRetryAfter(resp.RetryAfter)
            IN  RetryDecision(TRUE,
                              IF Positive(retryAfter) THEN retryAfter
                              ELSE Micros(calculateBackoff(attempt, r)),
                              "rate_limited")
        ELSE RetryDecision(FALSE, NoBackoff, "client_error")
    ELSE IF statusCode >= 500 THEN
        RetryDecision(TRUE, Micros(calculateBackoff(attempt, r)),
                      CASE statusCode = StatusBadGateway         -> "bad_gateway"
                        [] statusCode = StatusServiceUnavailable -> "service_unavailable"
                        [] statusCode = StatusGatewayTimeout     -> "gateway_timeout"
                        [] OTHER                                 -> "server_error")
    ELSE RetryDecision(FALSE, NoBackoff, "unknown_status")

handleError(err, attempt, r) ==
    IF err.nil THEN RetryDecision(FALSE, NoBackoff, "no_error")
    ELSE IF isNetworkError(err) THEN
        RetryDecision(TRUE, Micros(calculateBackoff(attempt, r)), "network_error")
    ELSE IF isTimeoutError(err) THEN
        RetryDecision(TRUE, Micros(calculateBackoff(attempt, r)), "timeout")
    ELSE IF isConnectionRefused(err) THEN
        RetryDecision(TRUE, Micros(calculateBackoff(attempt, r)), "connection_refused")
    ELSE RetryDecision(FALSE, NoBackoff, "unretryable_error")

ShouldRetry(err, statusCode, attempt, resp, r) ==
    IF attempt >= MaxAttempts THEN RetryDecision(FALSE, NoBackoff, "max_attempts_exceeded")
    ELSE IF statusCode > 0 THEN handleHTTPStatus(statusCode, attempt, resp, r)
    ELSE IF ~err.nil THEN handleError(err, attempt, r)
    ELSE RetryDecision(FALSE, NoBackoff, "success")

\* the status codes, errors, attempts and responses the model asks about
StatusCodes ==
    {0, 100, 200, 299, 301, 399, 400, 404, 407, 408, 409, 428, 429, 430, 499,
     500, 502, 503, 504, 599}
Messages ==
    {{}, {"card declined"}, {"connection reset"}, {"Connection Refused"},
     {"Timeout"}, {"deadline exceeded"}}
Errors ==
    {NoError} \cup
    {[nil |-> FALSE, opError |-> o, timeout |-> t, text |-> m] :
        o \in BOOLEAN, t \in {"absent", "true", "false"}, m \in Messages}
Attempts == 0..(MaxAttempts + 1)
RetryAfterValues ==
    {NoHeader, TextHeader, DateHeader(3), DateHeader(-3),
     IntHeader(FALSE, <<2>>), IntHeader(FALSE, <<0>>), IntHeader(TRUE, <<5>>),
     IntHeader(FALSE, <<1, 2, 0>>),
     IntHeader(FALSE, <<9, 2, 2, 3, 3, 7, 2, 0, 3, 6>>),
     IntHeader(FALSE, <<9, 2, 2, 3, 3, 7, 2, 0, 3, 7>>),
     IntHeader(FALSE, <<1, 8, 4, 4, 6, 7, 4, 4, 0, 7, 4>>)}
Responses == {NoResponse} \cup {Response(h) : h \in RetryAfterValues}

\* one call of ShouldRetry on a fresh strategy
ShouldRetryCall ==
    /\ retry = NoRetry
    /\ \E err \in Errors, statusCode \in StatusCodes, attempt \in Attempts,
          resp \in Responses, r \in RandSamples :
          retry' = [op |-> "ShouldRetry", err |-> err, statusCode |-> statusCode,
                    attempt |-> attempt, resp |-> resp,
                    decision |-> ShouldRetry(err, statusCode, attempt, resp, r)]
    /\ UNCHANGED <<planeVars, tracker, arrivals, shedder, mw, metrics, wall, pool>>

InitRetry ==
    /\ InitBreakers
    /\ InitRegistry
    /\ InitPayIdle

NextRetry == ShouldRetryCall

SpecRetry == InitRetry /\ [][NextRetry]_vars

\* a ShouldRetry call has been answered
Asked == retry.op = "ShouldRetry"

\* the lower-cased phrases of an error's message
Lowered(err) == {ToLower(phrase) : phrase \in err.text}

\* a network, timeout or connection-refused error
RetryableError(err) ==
    /\ ~err.nil
    /\ \/ err.opError
       \/ Lowered(err) \cap NetworkErrorPatterns # {}
       \/ err.timeout = "true"
       \/ err.timeout = "absent" /\ Lowered(err) \cap {"timeout", "deadline exceeded"} # {}

PositiveHeader(h) ==
    \/ h.kind = "int" /\ ~h.neg /\ \E k \in 1..Len(h.digits) : h.digits[k] # 0
    \/ h.kind = "date" /\ h.until > 0

\* that time span in nanoseconds, as a number
HeaderNanos(h) ==
    IF h.kind = "int" THEN Mul(Decimal(h.digits, WideBytes), Second(WideBytes), WideBytes)
    ELSE Mul(Bytes(h.until, WideBytes), Second(WideBytes), WideBytes)

\* the number an int64 holds
Value(a) == a \o [k \in 1..(WideBytes - Int64Bytes) |-> IF Negative(a) THEN Radix - 1 ELSE 0]

\* the delays calculateBackoff can return for the attempt
Computed(attempt) == {Micros(calculateBackoff(attempt, r)) : r \in RandSamples}

\* C24: the decision for a 429 whose response carries a positive Retry-After
\* (integer seconds or HTTP-date) has that value as its backoff; for every
\* other status the backoff is the computed delay or none, whatever the
\* header says.
C24_RetryAfterOverrides ==
    (Asked /\ retry.attempt < MaxAttempts /\ retry.statusCode > 0) =>
        IF retry.statusCode = StatusTooManyRequests
        THEN (~retry.resp.nil /\ PositiveHeader(retry.resp.RetryAfter))
                 => Value(retry.decision.Backoff) = HeaderNanos(retry.resp.RetryAfter)
        ELSE retry.decision.Backoff \in Computed(retry.attempt) \cup {NoBackoff}

\* C25, first half: at attempt >= max_attempts ShouldRetry answers no,
\* whatever the error, the status code and the Retry-After header are.
C25_NoRetryAtMax ==
    (Asked /\ retry.attempt >= MaxAttempts) => ~retry.decision.ShouldRetry

\* ------------------------------------------------------------------
\* The attempt budget of a payment: the pool main fills
\* (unnamed/part_001, lines 893-905), two requests for one payment
\* ------------------------------------------------------------------
GatewayServers == {"stripe", "razorpay", "klarna", "test1", "test2"}

InitBudget ==
    /\ InitBreakers
    /\ InitRegistry
    /\ status = <<>>
    /\ lastSet = NoCall
    /\ kv = RegisteredIntents
    /\ nextId = 2
    /\ epoch = [f \in Fingerprints |-> 0]
    /\ results = [p \in PayIds |-> NoResult]
    /\ servers = GatewayServers
    /\ reg = [r \in RegSlots |-> IdleReg]
    /\ hs = [h \in ChargeSlots |-> IdleCharge]
    /\ ds = [h \in ChargeSlots |-> IdleDispatch]
    /\ InitSubscribers
    /\ InitLibrary

NextBudget ==
    \/ \E h \in PairSlots : ChargeReceive(h, SamePayment)
    \/ \E h \in PairSlots : ChargeLookup(h)
    \/ \E h \in PairSlots : ChargeGetState(h)
    \/ \E h \in PairSlots : ChargeReplay(h)
    \/ \E h \in PairSlots : ChargeInitiate(h)
    \/ \E h \in PairSlots : ChargeProcess(h)
    \/ \E h \in PairSlots : DispatchStart(h)
    \/ \E h \in PairSlots : DispatchAttempt(h)
    \/ \E h \in PairSlots : DispatchFinalize(h)
    \/ \E h \in PairSlots : DispatchReadFinal(h)
    \/ \E h \in PairSlots : DispatchCache(h)
    \/ \E h \in PairSlots : DispatchNotify(h)

SpecBudget == InitBudget /\ [][NextBudget]_vars

RECURSIVE CallsOf(_, _)
\* the gateway calls the dispatches of slots S have made for payment p
CallsOf(p, S) ==
    IF S = {} THEN 0
    ELSE LET h == CHOOSE x \in S : TRUE
         IN  (IF ds[h].paymentID = p THEN ds[h].calls ELSE 0) + CallsOf(p, S \ {h})

\* C25: the gateway calls made for one payment never exceed max_attempts.
C25_AttemptsCapped ==
    \A p \in PayIds : CallsOf(p, ChargeSlots) <= MaxAttempts

\* ------------------------------------------------------------------
\* Latency window (unnamed/part_000)
\* ------------------------------------------------------------------

\* latencies in microseconds
LatencySamples == {4999000, 5000000, 5001000}

\* the AddSample calls one behaviour makes at most
MaxArrivals == 5

\* the newest sample is the one a full window refuses
AddSampleKeepsOldest(lt, latency) ==
    LET appended == Append(lt.samples, latency)
    IN  [lt EXCEPT !.samples =
            IF Len(appended) > lt.maxSamples
            THEN SubSeq(appended, 1, lt.maxSamples)
            ELSE appended]

\* lines 25-36: append, then cut the excess off the front
AddSample(lt, latency) ==
    LET appended == Append(lt.samples, latency)
        excess == Len(appended) - lt.maxSamples
    IN  [lt EXCEPT !.samples =
            IF Len(appended) > lt.maxSamples
            THEN SubSeq(appended, excess + 1, Len(appended))
            ELSE appended]

TrackerAddSample(latency) ==
    /\ Len(arrivals) < MaxArrivals
    /\ tracker' = AddSample(tracker, latency)
    /\ arrivals' = Append(arrivals, latency)
    /\ UNCHANGED <<planeVars, retry, shedder, mw, metrics, wall, pool>>

NextWindow == \E latency \in LatencySamples : TrackerAddSample(latency)

SpecWindow == InitBreaker /\ [][NextWindow]_vars

\* the smaller of two numbers
Min(a, b) == IF a < b THEN a ELSE b

\* C27: the window never holds more than its capacity, and it is the most
\* recent min(count, N) samples in arrival order.
C27_WindowIsMostRecent ==
    LET kept == Min(Len(arrivals), tracker.maxSamples)
    IN  /\ Len(tracker.samples) <= tracker.maxSamples
        /\ tracker.samples = SubSeq(arrivals, Len(arrivals) - kept + 1, Len(arrivals))

\* a full window took another sample and let go of its oldest, which
\* differs from the one that moved to the front
C27_Witness ==
    /\ Len(arrivals) > tracker.maxSamples
    /\ Len(tracker.samples) = tracker.maxSamples
    /\ arrivals[Len(arrivals) - tracker.maxSamples] # tracker.samples[1]
    /\ tracker.samples[Len(tracker.samples)] = arrivals[Len(arrivals)]

\* ------------------------------------------------------------------
\* Load shedding (backend/loadshedding.go) over the global latency window
\* ------------------------------------------------------------------

\* DefaultLoadSheddingConfig; the CPU threshold 0.80 in thousandths
MaxActiveRequests == 1
LatencyThresholdMs == 5000
CPUThreshold == 800
CircuitOpenThreshold == 2
\* the Retry-After the middleware sets on a rejection
ShedRetryAfter == "5"

\* what getCPUUsage can estimate, in thousandths (goroutines / 1250, at most 1)
CpuSamples == {500, 900}

RECURSIVE Insert(_, _)
\* x put into the ascending sequence s
Insert(s, x) ==
    IF s = <<>> THEN <<x>>
    ELSE IF x <= Head(s) THEN <<x>> \o s
    ELSE <<Head(s)>> \o Insert(Tail(s), x)

RECURSIVE Sort(_)
\* sort.Slice with sorted[i] < sorted[j]
Sort(s) == IF s = <<>> THEN <<>> ELSE Insert(Sort(Tail(s)), Head(s))

\* part_000, lines 66-89: the p-th percentile of ascending samples, with
\* linear interpolation between the two neighbours of index p/100 * (n-1)
percentile(sorted, p) ==
    IF Len(sorted) = 0 THEN 0
    ELSE LET index100 == p * (Len(sorted) - 1)
             lower == index100 \div 100
             upper == lower + 1
             weight100 == index100 % 100
         IN  IF upper >= Len(sorted) THEN sorted[Len(sorted)]
             ELSE (sorted[lower + 1] * (100 - weight100) + sorted[upper + 1] * weight100)
                      \div 100

\* GetPercentiles().P99
P99(lt) == percentile(Sort(lt.samples), 99)

\* time.Duration.Milliseconds of a microsecond count
Milliseconds(d) == d \div 1000

countOpenCircuits == Cardinality({p \in Providers : cb[p].state = StateOpen})

\* the circuit check asks for more open breakers than the threshold
ShouldShedStrictCircuits(ls, cpuUsage) ==
    IF ~ls.enabled THEN ""
    ELSE IF ls.activeRequests > MaxActiveRequests THEN "max_active_requests_exceeded"
    ELSE IF Milliseconds(P99(tracker)) > LatencyThresholdMs THEN "high_latency_detected"
    ELSE IF cpuUsage > CPUThreshold THEN "high_cpu_usage"
    ELSE IF countOpenCircuits > CircuitOpenThreshold THEN "multiple_circuits_open"
    ELSE ""

\* lines 67-116: the reason ShouldShed returns ("" for no shedding) when the
\* CPU check, if reached, works with cpuUsage
ShouldShed(ls, cpuUsage) ==
    IF ~ls.enabled THEN ""
    ELSE IF ls.activeRequests > MaxActiveRequests THEN "max_active_requests_exceeded"
    ELSE IF Milliseconds(P99(tracker)) > LatencyThresholdMs THEN "high_latency_detected"
    ELSE IF cpuUsage > CPUThreshold THEN "high_cpu_usage"
    ELSE IF countOpenCircuits >= CircuitOpenThreshold THEN "multiple_circuits_open"
    ELSE ""

\* whether the call gets as far as the CPU check
ReachesCPUCheck(ls) ==
    /\ ls.enabled
    /\ ls.activeRequests <= MaxActiveRequests
    /\ Milliseconds(P99(tracker)) <= LatencyThresholdMs

\* the middleware up to its decision: ShouldShed, then either the 503 with
\* the retry hint or the way on to IncrementActive.  A tick of the clock is
\* 30 seconds, so the cached estimate is reused within a tick only.
MwShouldShed(q) ==
    /\ mw[q].pc = "idle"
    /\ \E sample \in CpuSamples :
          LET fresh == now - shedder.lastCPUCheck > 0
              cpuUsage == IF fresh THEN sample ELSE shedder.lastCPUUsage
              reason == ShouldShed(shedder, cpuUsage)
              checked == IF ReachesCPUCheck(shedder) /\ fresh
                         THEN [shedder EXCEPT !.lastCPUUsage = sample, !.lastCPUCheck = now]
                         ELSE shedder
          IN  /\ shedder' = IF reason # "" THEN [checked EXCEPT !.shedRequests = @ + 1]
                            ELSE checked
              /\ mw' = [mw EXCEPT ![q] =
                          IF reason # ""
                          THEN [pc |-> "rejected", code |-> StatusServiceUnavailable,
                                retryAfter |-> ShedRetryAfter, reason |-> reason]
                          ELSE [IdleRequest EXCEPT !.pc = "admitted"]]
    /\ UNCHANGED <<planeVars, retry, tracker, arrivals, metrics, wall, pool>>

\* IncrementActive, line 225
MwIncrement(q) ==
    /\ mw[q].pc = "admitted"
    /\ shedder' = [shedder EXCEPT !.activeRequests = @ + 1, !.totalRequests = @ + 1]
    /\ mw' = [mw EXCEPT ![q].pc = "handling"]
    /\ UNCHANGED <<planeVars, retry, tracker, arrivals, metrics, wall, pool>>

\* next.ServeHTTP returns and the deferred DecrementActive runs
MwDecrement(q) ==
    /\ mw[q].pc = "handling"
    /\ shedder' = [shedder EXCEPT !.activeRequests = @ - 1]
    /\ mw' = [mw EXCEPT ![q].pc = "done"]
    /\ UNCHANGED <<planeVars, retry, tracker, arrivals, metrics, wall, pool>>

\* the windows the global tracker may hold when the requests arrive
Windows == {<<>>} \cup {<<a>> : a \in LatencySamples} \cup (LatencySamples \X LatencySamples)

\* the sets of providers whose breaker has opened
OpenSets == {{}, {"stripe"}, {"stripe", "razorpay"}}

InitShed ==
    /\ now = 0
    /\ \E open \in OpenSets :
          cb = [p \in Providers |-> IF p \in open THEN Tripped ELSE NewCircuitBreaker(0)]
    /\ inflight = [p \in Providers |-> 0]
    /\ outcome = NoOutcome
    /\ InitRegistry
    /\ status = <<>>
    /\ lastSet = NoCall
    /\ kv = RegisteredIntents
    /\ nextId = 2
    /\ epoch = [f \in Fingerprints |-> 0]
    /\ results = [p \in PayIds |-> NoResult]
    /\ servers = ServerURLs
    /\ reg = [r \in RegSlots |-> IdleReg]
    /\ hs = [h \in ChargeSlots |-> IdleCharge]
    /\ ds = [h \in ChargeSlots |-> IdleDispatch]
    /\ InitSubscribers
    /\ retry = NoRetry
    /\ \E w \in Windows :
          /\ tracker = [samples |-> w, maxSamples |-> MaxSamples]
          /\ arrivals = w
    /\ \E enabled \in BOOLEAN : shedder = NewLoadShedder(enabled, 0)
    /\ mw = [q \in Requests |-> IdleRequest]
    /\ metrics = NewServerMetrics(0)
    /\ wall = 0
    /\ pool = NewServerPool

NextShed ==
    \/ \E q \in Requests : MwShouldShed(q)
    \/ \E q \in Requests : MwIncrement(q)
    \/ \E q \in Requests : MwDecrement(q)
    \/ Tick

SpecShed == InitShed /\ [][NextShed]_vars

\* request q gets its answer from ShouldShed in this step
Decides(q) == mw[q].pc = "idle" /\ mw'[q].pc # "idle"

\* one of the four checks fires; the CPU estimate is the one the shedder
\* holds once the call is over (a fresh one, or the cached one)
Overloaded(latencyHigh) ==
    \/ shedder.activeRequests > MaxActiveRequests
    \/ latencyHigh
    \/ shedder'.lastCPUUsage > CPUThreshold
    \/ Cardinality({p \in Providers : cb[p].state = StateOpen}) >= CircuitOpenThreshold

\* what a rejection looks like: the 503 with the 5-second hint, the inflight
\* counter untouched
Rejection(q) ==
    /\ mw'[q].code = 503
    /\ mw'[q].retryAfter = "5"
    /\ shedder'.activeRequests = shedder.activeRequests

\* C26 as stated: a request is rejected exactly when inflight > max_active,
\* or the window's P99 > the latency threshold, or the CPU estimate > the
\* CPU threshold, or the open breakers >= circuit_open_threshold; a rejected
\* request goes no further and leaves the inflight counter alone.
C26_ShedsExactlyWhenOverloaded ==
    [][\A q \in Requests :
          /\ (Decides(q) /\ shedder.enabled) =>
                /\ (mw'[q].pc = "rejected")
                      <=> Overloaded(P99(tracker) > LatencyThresholdMs * 1000)
                /\ (mw'[q].pc = "rejected") => Rejection(q)
          /\ mw[q].pc = "rejected" => mw'[q] = mw[q]]_vars

\* C26, amended: the same with the window's P99 taken in whole milliseconds.
C26_ShedsOnWholeMilliseconds ==
    [][\A q \in Requests :
          /\ (Decides(q) /\ shedder.enabled) =>
                /\ (mw'[q].pc = "rejected")
                      <=> Overloaded(P99(tracker) \div 1000 > LatencyThresholdMs)
                /\ (mw'[q].pc = "rejected") => Rejection(q)
          /\ mw[q].pc = "rejected" => mw'[q] = mw[q]]_vars

\* two requests are being handled and a third was turned away for it, the
\* counter still at two
C26_Witness ==
    \E q \in Requests :
        /\ mw[q].pc = "rejected"
        /\ mw[q].reason = "max_active_requests_exceeded"
        /\ shedder.activeRequests = MaxActiveRequests + 1
        /\ \A other \in Requests \ {q} : mw[other].pc = "handling"

\* ------------------------------------------------------------------
\* Scoring of one gateway (backend/scoring.go), under DefaultScoringConfig
\* ------------------------------------------------------------------

\* scores and penalties in tenths, latencies in microseconds, the error
\* decay window of five minutes as one tick of the wall clock
BaseScore == 1000
LatencyThresholdLow == 100000
LatencyThresholdMed == 500000
LatencyThresholdHigh == 1000000
LatencyPenaltyLow == 25
LatencyPenaltyMed == 75
LatencyPenaltyHigh == 150
GatewayErrorPenalty == 50
BankErrorPenalty == 25
NetworkErrorPenalty == 75
ClientErrorPenalty == 10
HighLoadThreshold == 50
LoadPenalty == 100
ErrorDecayWindow == 1
MinScore == 0
MaxScore == 1000

\* the bounds of one behaviour: ticks of the wall clock, recorded requests,
\* network errors and errors of each other type
MaxWall == 1
MaxRecorded == 1
MaxNetworkErrors == 9
MaxOtherErrors == 1

ErrorTypes == {"ErrorTypeGateway", "ErrorTypeBank", "ErrorTypeNetwork", "ErrorTypeClient"}
RequestLatencies == {50000, 1000000}
ConnectionCounts == {0, 75, 100}

\* the list RecordError appends to
ErrorList(errorType) ==
    CASE errorType = "ErrorTypeGateway" -> "GatewayErrors"
      [] errorType = "ErrorTypeBank"    -> "BankErrors"
      [] errorType = "ErrorTypeNetwork" -> "NetworkErrors"
      [] OTHER                          -> "ClientErrors"

ErrorBound(errorType) ==
    IF errorType = "ErrorTypeNetwork" THEN MaxNetworkErrors ELSE MaxOtherErrors

\* lines 126-154; the request's latency also enters the gateway's window
RecordRequest(latency, success) ==
    /\ metrics.TotalRequests < MaxRecorded
    /\ LET total == metrics.TotalLatency + latency
           count == metrics.TotalRequests + 1
       IN  metrics' = [metrics EXCEPT
                          !.TotalRequests = count,
                          !.SuccessRequests = IF success THEN @ + 1 ELSE @,
                          !.FailedRequests = IF success THEN @ ELSE @ + 1,
                          !.TotalLatency = total,
                          !.AvgLatency = total \div count,
                          !.MinLatency = IF latency < @ THEN latency ELSE @,
                          !.MaxLatency = IF latency > @ THEN latency ELSE @]
    /\ tracker' = AddSample(tracker, latency)
    /\ arrivals' = Append(arrivals, latency)
    /\ UNCHANGED <<planeVars, retry, shedder, mw, wall, pool>>

\* lines 156-175: an event stamped with the time of the call
RecordError(errorType) ==
    /\ Len(metrics[ErrorList(errorType)]) < ErrorBound(errorType)
    /\ metrics' = [metrics EXCEPT ![ErrorList(errorType)] = Append(@, wall)]
    /\ UNCHANGED <<planeVars, retry, tracker, arrivals, shedder, mw, wall, pool>>

UpdateActiveConnections(count) ==
    /\ metrics' = [metrics EXCEPT !.ActiveConnections = count]
    /\ UNCHANGED <<planeVars, retry, tracker, arrivals, shedder, mw, wall, pool>>

\* filterErrors: the events with Timestamp.After(cutoff)
filterErrors(errors, cutoff) == SelectSeq(errors, LAMBDA t : t > cutoff)

cleanOldErrors(sm, t) ==
    [sm EXCEPT !.GatewayErrors = filterErrors(@, t - ErrorDecayWindow),
               !.BankErrors = filterErrors(@, t - ErrorDecayWindow),
               !.NetworkErrors = filterErrors(@, t - ErrorDecayWindow),
               !.ClientErrors = filterErrors(@, t - ErrorDecayWindow)]

\* lines 246-264: the score before it is clamped, for metrics whose old
\* errors are gone; LoadPenalty * min(loadFactor, 1) with loadFactor =
\* (ActiveConnections - HighLoadThreshold) / HighLoadThreshold
RawScore(sm) ==
    LET latency ==
            IF sm.AvgLatency >= LatencyThresholdHigh THEN LatencyPenaltyHigh
            ELSE IF sm.AvgLatency >= LatencyThresholdMed THEN LatencyPenaltyMed
            ELSE IF sm.AvgLatency >= LatencyThresholdLow THEN LatencyPenaltyLow
            ELSE 0
        errors ==
            Len(sm.GatewayErrors) * GatewayErrorPenalty
            + Len(sm.BankErrors) * BankErrorPenalty
            + Len(sm.NetworkErrors) * NetworkErrorPenalty
            + Len(sm.ClientErrors) * ClientErrorPenalty
        over == sm.ActiveConnections - HighLoadThreshold
        load ==
            IF sm.ActiveConnections >= HighLoadThreshold
            THEN IF over >= HighLoadThreshold THEN LoadPenalty
                 ELSE (LoadPenalty * over) \div HighLoadThreshold
            ELSE 0
    IN  BaseScore - latency - errors - load

\* the score is stored as computed when it is below MinScore
CalculateScoreNoFloor ==
    /\ LET cleaned == cleanOldErrors(metrics, wall)
           score == RawScore(cleaned)
       IN  metrics' = [cleaned EXCEPT
                          !.Score = IF score > MaxScore THEN MaxScore ELSE score,
                          !.LastUpdated = wall]
    /\ UNCHANGED <<planeVars, retry, tracker, arrivals, shedder, mw, wall, pool>>

\* lines 240-275
CalculateScore ==
    /\ LET cleaned == cleanOldErrors(metrics, wall)
           score == RawScore(cleaned)
       IN  metrics' = [cleaned EXCEPT
                          !.Score = IF score < MinScore THEN MinScore
                                    ELSE IF score > MaxScore THEN MaxScore ELSE score,
                          !.LastUpdated = wall]
    /\ UNCHANGED <<planeVars, retry, tracker, arrivals, shedder, mw, wall, pool>>

\* five minutes pass
WallTick ==
    /\ wall < MaxWall
    /\ wall' = wall + 1
    /\ UNCHANGED <<planeVars, retry, tracker, arrivals, shedder, mw, metrics, pool>>

NextScoring ==
    \/ \E latency \in RequestLatencies, success \in BOOLEAN : RecordRequest(latency, success)
    \/ \E errorType \in ErrorTypes : RecordError(errorType)
    \/ \E count \in ConnectionCounts : UpdateActiveConnections(count)
    \/ CalculateScore
    \/ WallTick

SpecScoring == InitBreaker /\ [][NextScoring]_vars

\* C28: in every reachable state the gateway's score lies within
\* [min_score, max_score].
C28_ScoreWithinBounds ==
    /\ metrics.Score >= MinScore
    /\ metrics.Score <= MaxScore

\* a scoring pass found penalties beyond the base score and stored the floor
C28_Witness ==
    /\ RawScore(metrics) < MinScore
    /\ metrics.LastUpdated = wall
    /\ metrics = cleanOldErrors(metrics, wall)
    /\ metrics.Score = MinScore

\* ------------------------------------------------------------------
\* SetState on its own (backend/state.go): any id, any requested state
\* ------------------------------------------------------------------
SetStateCall(id, changestate) ==
    /\ lastSet' = SetCall(status, id, changestate)
    /\ status' = SetState(status, id, changestate)
    /\ UNCHANGED <<kv, nextId, epoch, results, servers, reg, hs, ds, wsVars, libVars>>
    /\ UNCHANGED <<brkVars, regVars>>

NextState == \E id \in PayIds, changestate \in States : SetStateCall(id, changestate)

SpecState == InitBreaker /\ [][NextState]_vars

\* C29: for an id with no recorded state SetState accepts INITIATED only; a
\* request for PROCESSING, CANCELLED, SUCCESS or FAILED is refused.
C29_UnseenOnlyInitiated ==
    (lastSet.id # NoId /\ ~lastSet.present /\ lastSet.to # INITIATED) => ~lastSet.ok

\* ------------------------------------------------------------------
\* The retry loop's decision (unnamed/part_001, lines 757-773)
\* ------------------------------------------------------------------

\* an outcome the retry policy calls retryable: a network error or timeout,
\* or a provider answer 408, 429 or 5xx that does not report the charge done
RetryableOutcome(o) ==
    \/ o.transport
    \/ /\ o.status # "success"
       /\ \/ o.code = StatusRequestTimeout
          \/ o.code = StatusTooManyRequests
          \/ o.code >= 500

\* the loop of slot h has ended while gateway calls were still allowed
EndedWithinBudget(h) ==
    /\ ds[h].pc = "final"
    /\ ds[h].last # NoAttempt
    /\ ds[h].calls < ds[h].maxRetries

\* C30: an attempt with a retryable outcome is followed by a further attempt
\* while attempt budget remains: a dispatch leaves its loop with budget left
\* only on a fatal outcome.
C30_RetryableIsRetried ==
    \A h \in ChargeSlots : EndedWithinBudget(h) => ~RetryableOutcome(ds[h].last)

\* ------------------------------------------------------------------
\* A provider success after a retried attempt
\* (unnamed/part_001, lines 725-780)
\* ------------------------------------------------------------------

\* the loop of slot h has ended on a provider answer that reports success
EndedOnSuccess(h) ==
    /\ ds[h].pc = "final"
    /\ ds[h].last # NoAttempt
    /\ ~ds[h].last.transport
    /\ ds[h].last.status = "success"

\* C31: a dispatch whose provider reported success leaves its loop with the
\* payment in SUCCESS, also when earlier attempts failed and were retried;
\* the payment is not finalized as FAILED.
C31_SuccessIsFinal ==
    \A h \in ChargeSlots :
        EndedOnSuccess(h) => GetState(status, ds[h].paymentID) = SUCCESS

\* ------------------------------------------------------------------
\* Delivery of the result to a subscriber (websockets.go, lines 31-107;
\* unnamed/part_001, lines 797-802)
\* ------------------------------------------------------------------

\* the steps of the handler and dispatcher goroutines of slot h
ChargeProgress(h) ==
    \/ ChargeReceive(h, SamePayment)
    \/ ChargeLookup(h)
    \/ ChargeGetState(h)
    \/ ChargeInitiate(h)
    \/ ChargeProcess(h)
    \/ DispatchStart(h)
    \/ DispatchAttempt(h)
    \/ DispatchFinalize(h)
    \/ DispatchReadFinal(h)
    \/ DispatchCache(h)
    \/ DispatchNotify(h)
    \/ NotifySend(h)

\* the steps of HandleWS for connection c
HandleWSProgress(c) ==
    \/ HandleWSUpgrade(c)
    \/ HandleWSCached(c)
    \/ HandleWSRegister(c)

\* every goroutine that can run does run; a cached result expires, a peer
\* goes away and a reader ends only if the environment makes it so
SpecDelivery ==
    /\ SpecSubscribe
    /\ \A h \in SingleSlot : WF_vars(ChargeProgress(h))
    /\ \A c \in Conns : WF_vars(HandleWSProgress(c))

\* connection c is inside HandleWS or subscribed, for a payment whose result
\* is in the cache
AwaitsResult(c) ==
    /\ ws[c].pc \in {"get", "register", "subscribed"}
    /\ results[ws[c].paymentID] # NoResult

\* c has a message, is gone, or the cached result has expired
Served(c) ==
    \/ ws[c].inbox # <<>>
    \/ ws[c].pc \in {"closed", "broken"}
    \/ ws[c].paymentID = NoId
    \/ results[ws[c].paymentID] = NoResult

\* C32: a connection that is connected for a payment whose result has been
\* written, and that stays connected, eventually receives the result,
\* however its cache read and registration interleave with the
\* dispatcher's cache write and publish.
C32_SubscriberReceives ==
    \A c \in Conns : AwaitsResult(c) ~> Served(c)

\* ------------------------------------------------------------------
\* The periodic scorer and its stop (backend/loadbalancer.go,
\* lines 137-184)
\* ------------------------------------------------------------------

\* scoring passes and StopPeriodicScoreUpdate calls of one behaviour
MaxPasses == 3
MaxStops == 2

\* sp.mu is held by nobody
PoolMutexFree == pool.writer = "none" /\ pool.readers = 0

\* StartPeriodicScoreUpdate, lines 137-160: under sp.mu, isRunning is set,
\* the ticker is made and the scorer goroutine is launched; a call while
\* isRunning is set returns at once
StartPeriodicScoreUpdate ==
    /\ PoolMutexFree
    /\ pool.stopper # "lock"
    /\ ~pool.isRunning
    /\ pool.scorer \in {"off", "stopped"}
    /\ pool' = [pool EXCEPT !.isRunning = TRUE, !.tick = FALSE, !.scorer = "select"]
    /\ UNCHANGED <<planeVars, retry, tracker, arrivals, shedder, mw, metrics, wall>>

\* the ticker's period elapses: its channel holds one tick
TickerFires ==
    /\ pool.scorer \in {"select", "rlock", "scoring"}
    /\ ~pool.tick
    /\ pool.passes < MaxPasses
    /\ pool' = [pool EXCEPT !.tick = TRUE]
    /\ UNCHANGED <<planeVars, retry, tracker, arrivals, shedder, mw, metrics, wall>>

\* line 151: the select takes the tick and goes to updateAllScores
ScorerTakesTick ==
    /\ pool.scorer = "select"
    /\ pool.tick
    /\ pool' = [pool EXCEPT !.tick = FALSE, !.scorer = "rlock"]
    /\ UNCHANGED <<planeVars, retry, tracker, arrivals, shedder, mw, metrics, wall>>

\* lines 153-156 with line 167: the select receives from stopChan what
\* StopPeriodicScoreUpdate is sending, stops the ticker and returns
ScorerTakesStop ==
    /\ pool.scorer = "select"
    /\ pool.stopper = "send"
    /\ pool' = [pool EXCEPT !.tick = FALSE, !.scorer = "stopped", !.stopper = "sent"]
    /\ UNCHANGED <<planeVars, retry, tracker, arrivals, shedder, mw, metrics, wall>>

\* updateAllScores, line 172: sp.mu.RLock(), which waits while a writer
\* holds the mutex or waits for it
ScorerRLock ==
    /\ pool.scorer = "rlock"
    /\ pool.writer = "none"
    /\ pool.stopper # "lock"
    /\ pool' = [pool EXCEPT !.readers = @ + 1, !.scorer = "scoring"]
    /\ UNCHANGED <<planeVars, retry, tracker, arrivals, shedder, mw, metrics, wall>>

\* updateAllScores, lines 175-184: CalculateScore of the server, RUnlock,
\* and back to the select
ScorerUpdate ==
    /\ pool.scorer = "scoring"
    /\ LET cleaned == cleanOldErrors(metrics, wall)
           score == RawScore(cleaned)
       IN  metrics' = [cleaned EXCEPT
                          !.Score = IF score < MinScore THEN MinScore
                                    ELSE IF score > MaxScore THEN MaxScore ELSE score,
                          !.LastUpdated = wall]
    /\ pool' = [pool EXCEPT !.readers = @ - 1, !.scorer = "select", !.passes = @ + 1]
    /\ UNCHANGED <<planeVars, retry, tracker, arrivals, shedder, mw, wall>>

\* StopPeriodicScoreUpdate is called: line 163, sp.mu.Lock() is asked for
StopCall ==
    /\ pool.stopper \in {"idle", "returned"}
    /\ pool.stops < MaxStops
    /\ pool' = [pool EXCEPT !.stopper = "lock", !.stops = @ + 1]
    /\ UNCHANGED <<planeVars, retry, tracker, arrivals, shedder, mw, metrics, wall>>

\* lines 163-167: the lock is taken; with isRunning set the call goes on to
\* send on stopChan holding it, otherwise it unlocks and returns
StopLock ==
    /\ pool.stopper = "lock"
    /\ PoolMutexFree
    /\ pool' = IF pool.isRunning
               THEN [pool EXCEPT !.writer = "stop", !.stopper = "send"]
               ELSE [pool EXCEPT !.stopper = "returned"]
    /\ UNCHANGED <<planeVars, retry, tracker, arrivals, shedder, mw, metrics, wall>>

\* lines 168-170: the send went through; isRunning is cleared, the deferred
\* Unlock runs
StopReturn ==
    /\ pool.stopper = "sent"
    /\ pool' = [pool EXCEPT !.isRunning = FALSE, !.writer = "none", !.stopper = "returned"]
    /\ UNCHANGED <<planeVars, retry, tracker, arrivals, shedder, mw, metrics, wall>>

\* the scorer goroutine's own steps
ScorerProgress == ScorerTakesTick \/ ScorerTakesStop \/ ScorerRLock \/ ScorerUpdate

\* the steps of a StopPeriodicScoreUpdate call that has begun
StopProgress == StopLock \/ StopReturn

NextScorer ==
    \/ StartPeriodicScoreUpdate
    \/ TickerFires
    \/ ScorerTakesTick
    \/ ScorerTakesStop
    \/ ScorerRLock
    \/ ScorerUpdate
    \/ StopCall
    \/ StopLock
    \/ StopReturn
    \/ WallTick
    \/ \E count \in ConnectionCounts : UpdateActiveConnections(count)

\* goroutines that can run do run; calls and ticks come as they may
SpecScorer ==
    /\ InitBreaker
    /\ [][NextScorer]_vars
    /\ WF_vars(ScorerProgress)
    /\ WF_vars(StopProgress)

\* C33: a StopPeriodicScoreUpdate call that has begun returns, whatever the
\* scorer is doing, and while isRunning is clear no scoring pass happens.
C33_StopReturns ==
    /\ (pool.stopper \in {"lock", "send", "sent"}) ~> (pool.stopper = "returned")
    /\ [][~pool.isRunning => pool'.passes = pool.passes]_vars

\* ------------------------------------------------------------------
\* Recovery of an opened breaker under routed traffic
\* (unnamed/part_015, lines 142-195; script.js, lines 155-196)
\* ------------------------------------------------------------------

\* requests one breaker has been handed by the end of a behaviour
MaxRouted == 1

\* a request goes to the provider the selector returned for it, through
\* that provider's breaker: Execute, first half
ExecuteSelected ==
    /\ selected.strategy # "none"
    /\ selected.provider # NoProvider
    /\ LET p == selected.provider
           r == beforeRequest(cb[p], now)
       IN  /\ r.err \/ /\ inflight[p] < MaxInflight
                       /\ cb[p].totalRequests + inflight[p] < MaxRouted
           /\ cb' = [cb EXCEPT ![p] = r.cb]
           /\ inflight' = IF r.err THEN inflight ELSE [inflight EXCEPT ![p] = @ + 1]
           /\ outcome' = [op |-> "beforeRequest", provider |-> p, err |-> r.err]
    /\ selected' = [strategy |-> "none"]
    /\ UNCHANGED <<now, paymentProviders, affinity, payVars>>

\* the registry with breakers CLOSED or opened at time 0, the cooldown of
\* the opened ones over
InitRecovery ==
    /\ now = CooldownPeriod + 1
    /\ cb \in [Providers -> {NewCircuitBreaker(0), Tripped}]
    /\ inflight = [p \in Providers |-> 0]
    /\ outcome = NoOutcome
    /\ InitRegistry
    /\ InitPayIdle

NextRecovery ==
    \/ \E strategy \in Strategies, req \in SelectRequests : SelectProvider(strategy, req)
    \/ ExecuteSelected
    \/ \E p \in Providers, success \in BOOLEAN : AfterRequest(p, success)
    \/ Tick

\* every kind of request keeps arriving, each within the capabilities of
\* some provider, and the requests are carried through
SpecRecovery ==
    /\ InitRecovery
    /\ [][NextRecovery]_vars
    /\ \A req \in SelectRequests :
          WF_vars(\E strategy \in Strategies : SelectProvider(strategy, req))
    /\ SF_vars(ExecuteSelected)
    /\ WF_vars(\E p \in Providers, success \in BOOLEAN : AfterRequest(p, success))

\* C34: a breaker that is OPEN with its cooldown over eventually leaves OPEN
\* while requests keep arriving, without a Reset.
C34_OpenRecovers ==
    \A p \in Providers :
        (cb[p].state = StateOpen /\ now - cb[p].lastStateChange > CooldownPeriod)
            ~> (cb[p].state # StateOpen)

\* ------------------------------------------------------------------
\* A mismatching request that names a payment in flight
\* (unnamed/part_001, lines 537-547)
\* ------------------------------------------------------------------

\* slot h is about to be rejected for a mismatch, and the payment its
\* request names is in PROCESSING under the dispatch of another slot
NamesInFlight(h) ==
    /\ hs[h].pc = "mismatch"
    /\ GetState(status, hs[h].req.payment_id) = PROCESSING
    /\ \E g \in ChargeSlots \ {h} :
          /\ ds[g].pc \in {"start", "attempt", "final"}
          /\ ds[g].paymentID = hs[h].req.payment_id

\* C35: the rejection of a request for a payment-id mismatch leaves a
\* payment that a dispatch has in PROCESSING in PROCESSING.
C35_MismatchKeepsInFlight ==
    [][\A h \in ChargeSlots :
          (NamesInFlight(h) /\ hs'[h].pc # "mismatch")
              => GetState(status', hs[h].req.payment_id) = PROCESSING]_vars

\* ------------------------------------------------------------------
\* Probes of a HALF_OPEN breaker (script.js, lines 155-247)
\* ------------------------------------------------------------------

\* breakers opened at time 0 with nothing in flight, the cooldown over
InitProbe ==
    /\ now = CooldownPeriod + 1
    /\ cb = [p \in Providers |-> Tripped]
    /\ inflight = [p \in Providers |-> 0]
    /\ outcome = NoOutcome
    /\ InitRegistry
    /\ InitPayIdle

\* concurrent Execute calls on one breaker, all within one cooldown period
NextProbe ==
    \/ BeforeRequest("stripe")
    \/ \E success \in BOOLEAN : AfterRequest("stripe", success)

SpecProbe == InitProbe /\ [][NextProbe]_vars

\* the requests beforeRequest has let through since the breaker of p went
\* HALF_OPEN: those that have succeeded and those still with the provider
\* (a failure reopens the breaker, and no time passes for a second cooldown)
ProbesLetThrough(p) == cb[p].successCount + inflight[p]

\* C36: while a breaker is HALF_OPEN, beforeRequest has let through at most
\* half_open_max_requests probes.
C36_ProbesLimited ==
    \A p \in Providers :
        cb[p].state = StateHalfOpen => ProbesLetThrough(p) <= HalfOpenMaxRequests

\* ------------------------------------------------------------------
\* Mutexes across blocking operations (backend/loadbalancer.go,
\* lines 147-173)
\* ------------------------------------------------------------------

\* C37: no task is at a blocking operation with a component mutex held:
\* StopPeriodicScoreUpdate is not at its channel send holding sp.mu, and
\* the scorer goroutine does not wait in its select holding the read lock.
C37_NoMutexAcrossWait ==
    /\ pool.stopper = "send" => pool.writer = "none"
    /\ pool.scorer = "select" => pool.readers = 0

\* ------------------------------------------------------------------
\* Round robin over providers of equal priority (part_001, lines
\* 161-177; part_015, lines 60-84 and 142-208)
\* ------------------------------------------------------------------
\* the values of ProviderPriority
Priorities == {0, 1, 2}

\* RegisterPaymentProvider with an enabled config that keeps the breaker
\* of the provider: the config replaces the one stored under the name
RegisterPaymentProvider(name, priority) ==
    /\ paymentProviders' =
           [paymentProviders EXCEPT ![name] = [Enabled |-> TRUE, Priority |-> priority]]
    /\ UNCHANGED <<affinity, selected, brkVars, payVars>>

NextTies ==
    \/ \E name \in Providers, priority \in Priorities :
           RegisterPaymentProvider(name, priority)
    \/ \E name \in Providers : EnableProvider(name)
    \/ \E name \in Providers : DisableProvider(name)
    \/ \E req \in SelectRequests : SelectProvider("round_robin", req)

SpecTies == InitBreaker /\ [][NextTies]_vars

\* C38: under round_robin, a selection for the request of the selection
\* before it, made while the registry and the breakers still give that
\* earlier provider for the request and do not change, returns the same
\* provider, also among providers of equal priority.
C38_RoundRobinRepeats ==
    [][(/\ selected.strategy = "round_robin"
        /\ selected.provider \in selectRoundRobin(selected.req)
        /\ selected'.strategy = "round_robin"
        /\ selected'.req = selected.req
        /\ paymentProviders' = paymentProviders
        /\ cb' = cb) => selected'.provider = selected.provider]_vars

\* ------------------------------------------------------------------
\* Backoff within the jitter band (part_003, lines 217-239)
\* ------------------------------------------------------------------
\* the retry delay of the answer was computed by calculateBackoff: the
\* outcome is retryable and no positive Retry-After replaced the delay
BackoffComputed ==
    /\ Asked
    /\ retry.attempt < MaxAttempts
    /\ retry.decision.ShouldRetry
    /\ ~(/\ retry.statusCode = StatusTooManyRequests
         /\ ~retry.resp.nil
         /\ Positive(parseRetryAfter(retry.resp.RetryAfter)))

\* a Duration of fewer than 2^31 nanoseconds, none negative
FitsInt32(a) == (\A k \in 5..Len(a) : a[k] = 0) /\ a[4] < Radix \div 2

\* the whole microseconds of such a Duration
InMicros(a) ==
    (a[1] + a[2] * Radix + a[3] * Radix ^ 2 + a[4] * Radix ^ 3) \div 1000

\* min(base_delay * 2^attempt, max_delay), in microseconds
CappedDelay(attempt) ==
    IF BaseDelay * (2 ^ attempt) > MaxDelay THEN MaxDelay ELSE BaseDelay * (2 ^ attempt)

\* C39: below max_attempts the backoff calculateBackoff computed is not
\* negative and lies between (1 - jitter_factor) and (1 + jitter_factor)
\* times min(base_delay * 2^attempt, max_delay).
C39_BackoffWithinJitter ==
    BackoffComputed =>
        LET backoff == retry.decision.Backoff
            delay == CappedDelay(retry.attempt)
        IN  /\ ~Negative(backoff)
            /\ FitsInt32(backoff)
            /\ (JitterDen - JitterNum) * delay <= JitterDen * InMicros(backoff)
            /\ JitterDen * InMicros(backoff) <= (JitterDen + JitterNum) * delay

\* the last attempt below max_attempts was answered 503 and the delay is
\* the lowest of its band: 1.2 s, three quarters of 100 ms * 2^4
C39_Witness ==
    /\ BackoffComputed
    /\ retry.attempt = MaxAttempts - 1
    /\ retry.statusCode = StatusServiceUnavailable
    /\ InMicros(retry.decision.Backoff) = 1200000

\* ------------------------------------------------------------------
\* Requests inside the middleware (backend/loadshedding.go, lines
\* 55-77 and 192-231)
\* ------------------------------------------------------------------
\* the requests past IncrementActive whose handler has not returned
Handling == {q \in Requests : mw[q].pc = "handling"}

\* C40: the inflight counter is never negative, and never more than
\* max_active + 1 requests are being handled at once.
C40_HandledAtOnce ==
    /\ shedder.activeRequests >= 0
    /\ Cardinality(Handling) <= MaxActiveRequests + 1

====
